---- MODULE Spec2Model ----
(***************************************************************************)
(* Token lifecycle engine of wazo-auth: the relational-store Manager of    *)
(* wazo_auth/token.py (Token, ExpiredTokenRemover, Manager) and the legacy *)
(* consul-backed Manager/Storage of xivo_auth/token.py.                    *)
(*                                                                         *)
(* Python values are encoded as follows.  A str is a sequence of one-      *)
(* character strings.  An optional value is a sequence of length <= 1:     *)
(* None is <<>>, the value x is <<x>>.  A list is a sequence, a dict a     *)
(* record.  Token ids handed out by a store are the naturals 1, 2, ...;    *)
(* an id that is not a well-formed UUID is a number < 1.                   *)
(***************************************************************************)
EXTENDS Integers, Sequences, FiniteSets, TLC

\* ------------------------------------------------------------------ bounds
\* the clock runs over 1..MaxTime
MaxTime == 3
\* the store hands out at most MaxTokens token ids
MaxTokens == 2
\* how many calls of a behaviour meet consul or rabbitmq unreachable
MaxOutages == 1

\* ------------------------------------------------------- optional values
None == <<>>
Some(x) == <<x>>
IsNone(o) == o = <<>>
Val(o) == o[1]

\* ------------------------------------------------------ ACL matcher (4.1)
\* str.isalnum() or '_' : the characters re.escape leaves alone
Alnum == {"a", "b", "c", "e", "m", "u", "1", "2", "_"}

\* re.escape(acl): one element per character of acl, escaped unless
\* alphanumeric.  esc = TRUE stands for the two characters '\' c.
re_escape(acl) ==
  [i \in 1..Len(acl) |-> [k |-> "chr", c |-> acl[i], esc |-> acl[i] \notin Alnum]]

EscChr(c) == [k |-> "chr", c |-> c, esc |-> TRUE]
PlainChr(c) == [k |-> "chr", c |-> c, esc |-> FALSE]
\* '[^.]*?'
SegWild == [k |-> "seg", c |-> "", esc |-> FALSE]
\* '.*?'
AnyWild == [k |-> "any", c |-> "", esc |-> FALSE]
\* '(me|{auth_id})'
MeGroup == [k |-> "me", c |-> "", esc |-> FALSE]
\* replace_wildcards turning '*' into the multi-segment wildcard as well
replace_wildcards_star_crosses(rx) ==
  [i \in 1..Len(rx) |->
     IF rx[i] = EscChr("*") THEN AnyWild
     ELSE IF rx[i] = EscChr("#") THEN AnyWild
     ELSE rx[i]]

\* .replace('\*', '[^.]*?').replace('\#', '.*?')
replace_wildcards(rx) ==
  [i \in 1..Len(rx) |->
     IF rx[i] = EscChr("*") THEN SegWild
     ELSE IF rx[i] = EscChr("#") THEN AnyWild
     ELSE rx[i]]

\* the text '\.me\.' and the text '\.me'
DotMeDot == <<EscChr("."), PlainChr("m"), PlainChr("e"), EscChr(".")>>
DotMe == <<EscChr("."), PlainChr("m"), PlainChr("e")>>

StartsWith(s, p) == Len(s) >= Len(p) /\ SubSeq(s, 1, Len(p)) = p
EndsWith(s, p) == Len(s) >= Len(p) /\ SubSeq(s, Len(s) - Len(p) + 1, Len(s)) = p

\* str.replace('\.me\.', '\.(me|{auth_id})\.'): leftmost, non-overlapping
RECURSIVE replace_dot_me_dot(_)
replace_dot_me_dot(rx) ==
  IF rx = <<>> THEN <<>>
  ELSE IF StartsWith(rx, DotMeDot)
       THEN <<EscChr("."), MeGroup, EscChr(".")>>
              \o replace_dot_me_dot(SubSeq(rx, Len(DotMeDot) + 1, Len(rx)))
       ELSE <<Head(rx)>> \o replace_dot_me_dot(Tail(rx))

\* Token._transform_acl_me_to_uuid_or_me
transform_acl_me_to_uuid_or_me(acl_regex) ==
  LET r == replace_dot_me_dot(acl_regex)
  IN IF EndsWith(r, DotMe)
     THEN SubSeq(r, 1, Len(r) - Len(DotMe)) \o <<EscChr("."), MeGroup>>
     ELSE r

\* Token._transform_acl_to_regex: the pattern between '^' and '$'
transform_acl_to_regex(acl) ==
  transform_acl_me_to_uuid_or_me(replace_wildcards(re_escape(acl)))

\* auth_id is pasted into the pattern unescaped: its '.' is the regex dot
raw_regex(text) ==
  [i \in 1..Len(text) |->
     IF text[i] = "." THEN [k |-> "dot", c |-> "", esc |-> FALSE]
     ELSE PlainChr(text[i])]

\* re.match('^' + rx + '$', s): '$' matches at the end of s and also just
\* before a newline that ends s; '.' matches anything but a newline.
RECURSIVE re_match(_, _, _)
re_match(rx, s, auth_id) ==
  IF rx = <<>> THEN s = <<>> \/ s = <<"\n">>
  ELSE LET h == Head(rx)
           t == Tail(rx)
       IN CASE h.k = "chr" -> s # <<>> /\ Head(s) = h.c /\ re_match(t, Tail(s), auth_id)
            [] h.k = "dot" -> s # <<>> /\ Head(s) # "\n" /\ re_match(t, Tail(s), auth_id)
            [] h.k = "seg" -> \/ re_match(t, s, auth_id)
                              \/ s # <<>> /\ Head(s) # "." /\ re_match(rx, Tail(s), auth_id)
            [] h.k = "any" -> \/ re_match(t, s, auth_id)
                              \/ s # <<>> /\ Head(s) # "\n" /\ re_match(rx, Tail(s), auth_id)
            [] h.k = "me" -> \/ re_match(<<PlainChr("m"), PlainChr("e")>> \o t, s, auth_id)
                             \/ re_match(raw_regex(auth_id) \o t, s, auth_id)

\* ------------------------------------------------------------------ Token
\* Token.__init__(id_, **token_payload)
Token(id_, payload) ==
  [token |-> id_,
   auth_id |-> payload.auth_id,
   xivo_user_uuid |-> payload.xivo_user_uuid,
   xivo_uuid |-> payload.xivo_uuid,
   issued_t |-> payload.issued_t,
   expire_t |-> payload.expire_t,
   acls |-> payload.acls,
   metadata |-> payload.metadata]

\* is_expired with the comparison turned around
is_expired_inverted(self, t) == self.expire_t # 0 /\ t < self.expire_t

\* is_expired reading issued_t where it should read expire_t
is_expired_uses_issued_t(self, t) == self.expire_t # 0 /\ t > self.issued_t

\* Token.is_expired at clock reading t: 'self.expire_t and time.time() > self.expire_t'
is_expired(self, t) == self.expire_t # 0 /\ t > self.expire_t

\* matches_required_acl without the 'required_acl is None' shortcut
matches_required_acl_no_none(self, required_acl) ==
  \E i \in 1..Len(self.acls) :
    /\ ~IsNone(required_acl)
    /\ re_match(transform_acl_to_regex(self.acls[i]), Val(required_acl), self.auth_id)
\* matches_required_acl answering None from the acls: no acls, no match
matches_required_acl_none_needs_acls(self, required_acl) ==
  IF IsNone(required_acl) THEN self.acls # <<>>
  ELSE \E i \in 1..Len(self.acls) :
         re_match(transform_acl_to_regex(self.acls[i]), Val(required_acl), self.auth_id)

\* Token.matches_required_acl
matches_required_acl(self, required_acl) ==
  IF IsNone(required_acl) THEN TRUE
  ELSE \E i \in 1..Len(self.acls) :
         re_match(transform_acl_to_regex(self.acls[i]), Val(required_acl), self.auth_id)

\* ---------------------------------------------------------- configuration
\* config['default_token_lifetime'], in clock ticks
default_token_lifetime == 2
\* config['token_cleanup_interval'], in clock ticks
token_cleanup_interval == 1
\* config['backend_policies']: backend name -> optional policy name
backend_policies ==
  [mock |-> None, wazo_user |-> Some("wazo_default_user_policy")]
BackendNames == DOMAIN backend_policies

\* --------------------------------------------------- collaborators (6.)
\* tenant listing: uuid, parent_uuid (the root is its own parent)
TenantListing ==
  {[uuid |-> "top", parent_uuid |-> "top"],
   [uuid |-> "t1", parent_uuid |-> "top"],
   [uuid |-> "t2", parent_uuid |-> "t1"]}

\* children of the tenants in s that are not in s yet
TenantChildren(listing, s) ==
  {n.uuid : n \in {m \in listing : m.parent_uuid \in s}} \ s

RECURSIVE TenantClosure(_, _)
TenantClosure(listing, s) ==
  IF TenantChildren(listing, s) = {} THEN s
  ELSE TenantClosure(listing, s \cup TenantChildren(listing, s))
\* list_nodes returning the tenant and its children only
list_nodes_children_only(listing, nid) ==
  IF nid \in {n.uuid : n \in listing} THEN {nid} \cup TenantChildren(listing, {nid}) ELSE {}
\* list_nodes falling back to the whole listing for a uuid it does not know
list_nodes_absent_gives_all(listing, nid) ==
  IF nid \in {n.uuid : n \in listing} THEN TenantClosure(listing, {nid})
  ELSE {n.uuid : n \in listing}

\* TenantTree.list_nodes: inclusive descendant closure; a uuid that is not
\* in the listing has no nodes
list_nodes(listing, nid) ==
  IF nid \in {n.uuid : n \in listing} THEN TenantClosure(listing, {nid}) ELSE {}

\* the two states of the policy table: the configured policy exists or not
PolicyTables ==
  {<<>>,
   <<[name |-> "wazo_default_admin_policy",
      acl_templates |-> << <<"#">> >>],
     [name |-> "wazo_default_user_policy",
      acl_templates |-> << <<"a", ".", "*">>, <<"b", ".", "m", "e">> >>],
     [name |-> "wazo_default_user_policy",
      acl_templates |-> << <<"b", ".", "#">> >>]>>}

\* dao.policy.get(name=policy_name, limit=1)
dao_policy_get(policies, name, limit) ==
  LET idx == {i \in 1..Len(policies) : policies[i].name = name}
      hits == [i \in 1..Cardinality(idx) |->
                 policies[CHOOSE j \in idx : Cardinality({k \in idx : k < j}) = i - 1]]
  IN IF Len(hits) > limit THEN SubSeq(hits, 1, limit) ELSE hits

\* dao.token.get: the stored record with its uuid, or None
dao_token_get(store, token_uuid) ==
  IF token_uuid \in DOMAIN store
  THEN Some([uuid |-> token_uuid, data |-> store[token_uuid]])
  ELSE None

\* dao.token.create: the store assigns the next unused id
dao_token_create(store, next, payload) ==
  [uuid |-> next,
   store |-> [u \in DOMAIN store \cup {next} |->
                IF u = next THEN payload ELSE store[u]]]

\* dao.token.delete: deleting an absent token is not an error
dao_token_delete(store, token_uuid) ==
  [u \in DOMAIN store \ {token_uuid} |-> store[u]]

\* the tokens dao.token.delete_expired_tokens finds expired at clock reading t
dao_token_expired_tokens(store, t) == {u \in DOMAIN store : store[u].expire_t < t}

\* dao.token.delete_expired_tokens at clock reading t
dao_token_delete_expired_tokens(store, t) ==
  [u \in {v \in DOMAIN store : ~(store[v].expire_t < t)} |-> store[u]]

\* the metadata each authentication backend knows for the login
BackendMetadata ==
  [mock |-> [auth_id |-> <<"u", "1">>, xivo_user_uuid |-> None,
             xivo_uuid |-> "the-predefined-xivo-uuid", tenant_uuid |-> None],
   wazo_user |-> [auth_id |-> <<"u", "2">>, xivo_user_uuid |-> Some("u2"),
                  xivo_uuid |-> "the-predefined-xivo-uuid", tenant_uuid |-> Some("t1")]]

\* how a backend may answer one new_token call: get_metadata raises, or
\* returns a dict without the 'xivo_uuid' key (missing_key), or get_acls
\* raises, or get_acls returns the templates it was given ("templates") or
\* None ("none")
BackendReplies ==
  {[metadata_raises |-> TRUE, missing_key |-> FALSE, acls_raises |-> FALSE, acls |-> "none"],
   [metadata_raises |-> FALSE, missing_key |-> TRUE, acls_raises |-> FALSE, acls |-> "none"],
   [metadata_raises |-> FALSE, missing_key |-> FALSE, acls_raises |-> TRUE, acls |-> "none"],
   [metadata_raises |-> FALSE, missing_key |-> FALSE, acls_raises |-> FALSE, acls |-> "templates"],
   [metadata_raises |-> FALSE, missing_key |-> FALSE, acls_raises |-> FALSE, acls |-> "none"]}

\* backend.get_metadata(login, args) when it does not raise
backend_get_metadata(args) == BackendMetadata[args.backend]

\* backend.get_acls(login, args) when it does not raise
backend_get_acls(reply, args) ==
  IF reply.acls = "templates" THEN Some(args.acl_templates) ELSE None

\* args of a token request (TokenRequestSchema: expiration >= 1 when given)
Expirations == {None, Some(1)}
RequestArgs ==
  [backend : BackendNames,
   expiration : Expirations,
   acl_templates : {<< <<"c">> >>}]

\* required_acl of a lookup
RequiredAcls ==
  {None,
   Some(<<"a", ".", "b">>),
   Some(<<"c">>)}
\* _get_tenant_list giving the tenant itself without asking the tree
get_tenant_list_self_only(tenant_uuid) ==
  IF IsNone(tenant_uuid) THEN {} ELSE {[uuid |-> Val(tenant_uuid)]}

\* ---------------------------------------------------------------- Manager
\* Manager._get_tenant_list
get_tenant_list(tenant_uuid) ==
  IF IsNone(tenant_uuid) THEN {}
  ELSE {[uuid |-> u] : u \in list_nodes(TenantListing, Val(tenant_uuid))}
\* _get_acl_templates asking the store for a policy without giving the name
get_acl_templates_any_policy(policies, backend_name) ==
  LET policy_name == backend_policies[backend_name]
  IN IF IsNone(policy_name) THEN <<>>
     ELSE IF policies # <<>> THEN policies[1].acl_templates ELSE <<>>

\* Manager._get_acl_templates
get_acl_templates(policies, backend_name) ==
  LET policy_name == backend_policies[backend_name]
  IN IF IsNone(policy_name) THEN <<>>
     ELSE LET matching_policies == dao_policy_get(policies, Val(policy_name), 1)
          IN IF matching_policies # <<>>
             THEN matching_policies[1].acl_templates
             ELSE <<>>

\* args.get('expiration', self._default_expiration)
get_expiration(args) ==
  IF IsNone(args.expiration) THEN default_token_lifetime ELSE Val(args.expiration)

\* token_payload that ignores the requested expiration
token_payload_default_lifetime(metadata, acls, expiration, t) ==
  [auth_id |-> metadata.auth_id,
   xivo_user_uuid |-> metadata.xivo_user_uuid,
   xivo_uuid |-> metadata.xivo_uuid,
   expire_t |-> t + default_token_lifetime,
   issued_t |-> t,
   acls |-> IF IsNone(acls) THEN <<>> ELSE Val(acls),
   metadata |-> metadata]

\* the token_payload dict of Manager.new_token, from one clock reading t
token_payload(metadata, acls, expiration, t) ==
  [auth_id |-> metadata.auth_id,
   xivo_user_uuid |-> metadata.xivo_user_uuid,
   xivo_uuid |-> metadata.xivo_uuid,
   expire_t |-> t + expiration,
   issued_t |-> t,
   acls |-> IF IsNone(acls) THEN <<>> ELSE Val(acls),
   metadata |-> metadata]

\* the outcome of an operation that raised: nothing returned, store as before
Raised(exception, store, next, calls) ==
  [outcome |-> exception, token |-> None, store |-> store, next |-> next,
   calls |-> calls]

\* new_token that persists the token before it asks the backend for the ACLs
new_token_create_first(store, next, policies, reply, args, t) ==
  IF reply.metadata_raises
  THEN Raised("BackendException", store, next, <<"get_metadata">>)
  ELSE
    LET md == backend_get_metadata(args)
        metadata == [auth_id |-> md.auth_id,
                     xivo_user_uuid |-> md.xivo_user_uuid,
                     xivo_uuid |-> md.xivo_uuid,
                     tenant_uuid |-> md.tenant_uuid,
                     tenants |-> get_tenant_list(md.tenant_uuid)]
        args2 == [args EXCEPT !.acl_templates = get_acl_templates(policies, args.backend)]
        acls == IF reply.acls_raises THEN None ELSE backend_get_acls(reply, args2)
        payload == token_payload(metadata, acls, get_expiration(args), t)
        created == dao_token_create(store, next, payload)
        calls == <<"get_metadata", "create", "get_acls">>
    IN IF reply.acls_raises
       THEN Raised("BackendException", created.store, next + 1, calls)
       ELSE [outcome |-> "ok",
             token |-> Some(Token(created.uuid, payload)),
             store |-> created.store,
             next |-> next + 1,
             calls |-> calls]
\* new_token that renews in place: with a token already in the table it
\* rewrites that record instead of creating a new one
new_token_renews_in_place(store, next, policies, reply, args, t) ==
  IF reply.metadata_raises
  THEN Raised("BackendException", store, next, <<"get_metadata">>)
  ELSE
    LET md == backend_get_metadata(args)
        metadata == [auth_id |-> md.auth_id,
                     xivo_user_uuid |-> md.xivo_user_uuid,
                     xivo_uuid |-> md.xivo_uuid,
                     tenant_uuid |-> md.tenant_uuid,
                     tenants |-> get_tenant_list(md.tenant_uuid)]
        args2 == [args EXCEPT !.acl_templates = get_acl_templates(policies, args.backend)]
        calls == <<"get_metadata", "get_acls", "create">>
        acls == backend_get_acls(reply, args2)
        payload == token_payload(metadata, acls, get_expiration(args), t)
        uuid == IF DOMAIN store = {} THEN next ELSE CHOOSE u \in DOMAIN store : TRUE
    IN IF reply.acls_raises
       THEN Raised("BackendException", store, next, calls)
       ELSE [outcome |-> "ok",
             token |-> Some(Token(uuid, payload)),
             store |-> dao_token_create(store, uuid, payload).store,
             next |-> next + 1,
             calls |-> calls]
\* new_token that persists the record as soon as get_metadata answered,
\* before the tenants and the ACLs are known, and completes it at the end
new_token_stores_early(store, next, policies, reply, args, t) ==
  IF reply.metadata_raises
  THEN Raised("BackendException", store, next, <<"get_metadata">>)
  ELSE
    LET md == backend_get_metadata(args)
        early == dao_token_create(store, next,
                   token_payload(md, None, get_expiration(args), t))
        metadata == [auth_id |-> md.auth_id,
                     xivo_user_uuid |-> md.xivo_user_uuid,
                     xivo_uuid |-> md.xivo_uuid,
                     tenant_uuid |-> md.tenant_uuid,
                     tenants |-> get_tenant_list(md.tenant_uuid)]
        args2 == [args EXCEPT !.acl_templates = get_acl_templates(policies, args.backend)]
        calls == <<"get_metadata", "create", "get_acls">>
        payload == token_payload(metadata, backend_get_acls(reply, args2),
                                 get_expiration(args), t)
        created == dao_token_create(store, next, payload)
    IN IF reply.missing_key
       THEN Raised("KeyError", early.store, next + 1, calls)
       ELSE IF reply.acls_raises
       THEN Raised("BackendException", early.store, next + 1, calls)
       ELSE [outcome |-> "ok",
             token |-> Some(Token(created.uuid, payload)),
             store |-> created.store,
             next |-> next + 1,
             calls |-> calls \o <<"create">>]

\* Manager.new_token at clock reading t; calls lists the collaborator calls
\* in the order the code makes them
new_token(store, next, policies, reply, args, t) ==
  IF reply.metadata_raises
  THEN Raised("BackendException", store, next, <<"get_metadata">>)
  ELSE
    LET md == backend_get_metadata(args)
        metadata == [auth_id |-> md.auth_id,
                     xivo_user_uuid |-> md.xivo_user_uuid,
                     xivo_uuid |-> md.xivo_uuid,
                     tenant_uuid |-> md.tenant_uuid,
                     tenants |-> get_tenant_list(md.tenant_uuid)]
        args2 == [args EXCEPT !.acl_templates = get_acl_templates(policies, args.backend)]
        tenant_calls == <<"get_metadata">>
                          \o (IF IsNone(md.tenant_uuid) THEN <<>> ELSE <<"list_nodes">>)
        calls == tenant_calls
                   \o (IF IsNone(backend_policies[args.backend]) THEN <<>> ELSE <<"policy.get">>)
                   \o <<"get_acls">>
    IN IF reply.missing_key
       THEN Raised("KeyError", store, next, tenant_calls)
       ELSE IF reply.acls_raises
       THEN Raised("BackendException", store, next, calls)
       ELSE
         LET acls == backend_get_acls(reply, args2)
             payload == token_payload(metadata, acls, get_expiration(args), t)
             created == dao_token_create(store, next, payload)
         IN [outcome |-> "ok",
             token |-> Some(Token(created.uuid, payload)),
             store |-> created.store,
             next |-> next + 1,
             calls |-> calls \o <<"create">>]

\* remove_token that forgets to delete
remove_token_noop(store, token) ==
  [outcome |-> "ok", store |-> store]

\* Manager.remove_token
remove_token(store, token) ==
  [outcome |-> "ok", store |-> dao_token_delete(store, token)]

\* get that deletes an expired token when it reads one
get_deletes_expired(store, token_uuid, required_acl, t) ==
  LET token_data == dao_token_get(store, token_uuid)
  IN IF IsNone(token_data)
     THEN [outcome |-> "UnknownTokenException", token |-> None, store |-> store]
     ELSE LET token == Token(Val(token_data).uuid, Val(token_data).data)
          IN IF is_expired(token, t)
             THEN [outcome |-> "UnknownTokenException", token |-> None,
                   store |-> dao_token_delete(store, token_uuid)]
             ELSE IF ~matches_required_acl(token, required_acl)
                  THEN [outcome |-> "MissingACLTokenException", token |-> None,
                        store |-> store]
                  ELSE [outcome |-> "ok", token |-> Some(token), store |-> store]

\* get that checks the ACL before the expiry
get_acl_first(store, token_uuid, required_acl, t) ==
  LET token_data == dao_token_get(store, token_uuid)
  IN IF IsNone(token_data)
     THEN [outcome |-> "UnknownTokenException", token |-> None, store |-> store]
     ELSE LET token == Token(Val(token_data).uuid, Val(token_data).data)
          IN IF ~matches_required_acl(token, required_acl)
             THEN [outcome |-> "MissingACLTokenException", token |-> None,
                   store |-> store]
             ELSE IF is_expired(token, t)
                  THEN [outcome |-> "UnknownTokenException", token |-> None,
                        store |-> store]
                  ELSE [outcome |-> "ok", token |-> Some(token), store |-> store]

\* Manager.get at clock reading t; store is the token table after the call
\* (the code only reads it, through dao.token.get)
get(store, token_uuid, required_acl, t) ==
  LET token_data == dao_token_get(store, token_uuid)
  IN IF IsNone(token_data)
     THEN [outcome |-> "UnknownTokenException", token |-> None, store |-> store]
     ELSE LET token == Token(Val(token_data).uuid, Val(token_data).data)
          IN IF is_expired(token, t)
             THEN [outcome |-> "UnknownTokenException", token |-> None, store |-> store]
             ELSE IF ~matches_required_acl(token, required_acl)
                  THEN [outcome |-> "MissingACLTokenException", token |-> None,
                        store |-> store]
                  ELSE [outcome |-> "ok", token |-> Some(token), store |-> store]

\* ------------------------------------------------------------ the state
VARIABLES
  now,          \* time.time()
  dao_token,    \* the token table: token uuid -> stored payload
  next_uuid,    \* the next id dao.token.create hands out
  dao_policy,   \* the policy table
  remover,      \* ExpiredTokenRemover: the armed timers
  last,         \* the operation that led to this state and what it returned
  valid,        \* history: token uuid -> the Token new_token returned, for
                \* the tokens not removed by remove_token and not yet expired
  removed,      \* history: the issued ids remove_token was completed for
  swept,        \* history: what the sweeper's bulk deletes returned so far,
                \* as <<"token", id>> and <<"session", id>>
  dao_session,  \* newer variant: the session table and the next session id
  bus,          \* newer variant: the events published so far
  consul,       \* legacy: the consul KV tree and ACL tokens behind Storage
  celery,       \* legacy: the scheduled clean_token tasks and the revoked ids
  outages       \* legacy: how many calls met consul or rabbitmq unreachable

vars == <<now, dao_token, next_uuid, dao_policy, remover, last, valid, removed,
          swept, dao_session, bus, consul, celery, outages>>
\* what the relational Manager does not touch
legacy_vars == <<consul, celery, outages>>
\* what the legacy Manager does not touch
wazo_vars == <<dao_token, dao_policy, remover, valid, removed, swept>>
\* what only the session-aware sweeper touches
session_vars == <<dao_session, bus>>
\* no session, and session ids start at 1
EmptySessions == [live |-> {}, next |-> 1]

\* an empty consul: no token data, no name index, no ACL token
EmptyConsul == [tokens |-> <<>>, names |-> <<>>, acl |-> <<>>]
\* celery with nothing scheduled and nothing revoked
EmptyCelery == [tasks |-> {}, revoked |-> {}]

\* ids a caller may present: 0 is not a well-formed id, the others are
\* the ids the store hands out sooner or later
TokenIds == 0..MaxTokens

NoOp == [op |-> "init", id |-> None, acl |-> None, outcome |-> "ok",
         token |-> None, calls |-> <<>>, args |-> None, reply |-> None,
         timer |-> None]

Init ==
  /\ now = 1
  /\ dao_token = <<>>
  /\ next_uuid = 1
  /\ dao_policy \in PolicyTables
  /\ remover = [timers |-> 1]
  /\ last = NoOp
  /\ valid = <<>>
  /\ removed = {}
  /\ swept = {}
  /\ dao_session = EmptySessions
  /\ bus = <<>>
  /\ consul = EmptyConsul
  /\ celery = EmptyCelery
  /\ outages = 0

\* time passes
Tick ==
  /\ now < MaxTime
  /\ now' = now + 1
  /\ last' = [NoOp EXCEPT !.op = "tick"]
  /\ valid' = [u \in {v \in DOMAIN valid : ~(now' > valid[v].expire_t)} |-> valid[u]]
  /\ UNCHANGED <<dao_token, next_uuid, dao_policy, remover, removed, swept>>
  /\ UNCHANGED legacy_vars
  /\ UNCHANGED session_vars

\* POST /token: Manager.new_token(backend, login, args)
NewToken(reply, args) ==
  /\ next_uuid <= MaxTokens
  /\ LET r == new_token(dao_token, next_uuid, dao_policy, reply, args, now)
     IN /\ dao_token' = r.store
        /\ next_uuid' = r.next
        /\ last' = [NoOp EXCEPT !.op = "new_token", !.outcome = r.outcome,
                                !.token = r.token, !.calls = r.calls,
                                !.args = Some(args), !.reply = Some(reply)]
        /\ valid' = IF r.outcome = "ok"
                     THEN [u \in DOMAIN valid \cup {Val(r.token).token} |->
                             IF u = Val(r.token).token THEN Val(r.token) ELSE valid[u]]
                     ELSE valid
  /\ UNCHANGED <<now, dao_policy, remover, removed, swept>>
  /\ UNCHANGED legacy_vars
  /\ UNCHANGED session_vars

\* DELETE /token/<id>: Manager.remove_token(token)
RemoveToken(token) ==
  /\ LET r == remove_token(dao_token, token)
     IN /\ dao_token' = r.store
        /\ last' = [NoOp EXCEPT !.op = "remove_token", !.id = Some(token),
                                !.outcome = r.outcome]
        /\ removed' = removed \cup ({token} \cap 1..(next_uuid - 1))
        /\ valid' = [u \in DOMAIN valid \ {token} |-> valid[u]]
  /\ UNCHANGED <<now, next_uuid, dao_policy, remover, swept>>
  /\ UNCHANGED legacy_vars
  /\ UNCHANGED session_vars

\* GET|HEAD /token/<id>: Manager.get(token_uuid, required_acl)
Get(token_uuid, required_acl) ==
  /\ LET r == get(dao_token, token_uuid, required_acl, now)
     IN /\ dao_token' = r.store
        /\ last' = [NoOp EXCEPT !.op = "get", !.id = Some(token_uuid),
                                !.acl = required_acl, !.outcome = r.outcome,
                                !.token = r.token]
  /\ UNCHANGED <<now, next_uuid, dao_policy, remover, valid, removed, swept>>
  /\ UNCHANGED legacy_vars
  /\ UNCHANGED session_vars
\* _cleanup whose bulk delete takes every token, expired or not
cleanup_deletes_all(store, fails, t) ==
  IF fails THEN [outcome |-> "swallowed", store |-> store, found |-> {}]
  ELSE [outcome |-> "ok", store |-> <<>>,
        found |-> dao_token_expired_tokens(store, t)]

\* _cleanup without the try/except: the store's error leaves _cleanup
cleanup_propagates(store, fails, t) ==
  IF fails THEN [outcome |-> "raised", store |-> store, found |-> {}]
  ELSE [outcome |-> "ok", store |-> dao_token_delete_expired_tokens(store, t),
        found |-> dao_token_expired_tokens(store, t)]
\* _cleanup that logs but never asks the store to delete
cleanup_skips_delete(store, fails, t) ==
  [outcome |-> IF fails THEN "swallowed" ELSE "ok", store |-> store, found |-> {}]

\* ExpiredTokenRemover._cleanup: the bulk delete at clock reading t; when it
\* raises, the exception is logged and swallowed.  found is what the bulk
\* delete found expired (the code discards its return value).
cleanup(store, fails, t) ==
  IF fails THEN [outcome |-> "swallowed", store |-> store, found |-> {}]
  ELSE [outcome |-> "ok", store |-> dao_token_delete_expired_tokens(store, t),
        found |-> dao_token_expired_tokens(store, t)]

\* _reschedule arming a second Timer for the same run
reschedule_twice(rem, interval) ==
  [remover |-> [rem EXCEPT !.timers = rem.timers + 2], timer |-> Some(interval)]

\* ExpiredTokenRemover._reschedule: one more Timer, armed with interval
reschedule(rem, interval) ==
  [remover |-> [rem EXCEPT !.timers = rem.timers + 1], timer |-> Some(interval)]

\* a Timer fires: ExpiredTokenRemover.run, that is _cleanup and then
\* _reschedule; an exception leaving _cleanup would end run before
\* _reschedule and the Timer thread with it
Run(fails) ==
  /\ remover.timers > 0
  /\ LET r == cleanup(dao_token, fails, now)
         fired == [remover EXCEPT !.timers = remover.timers - 1]
         next_run == IF r.outcome = "raised" THEN [remover |-> fired, timer |-> None]
                     ELSE reschedule(fired, token_cleanup_interval)
     IN /\ dao_token' = r.store
        /\ swept' = swept \cup {<<"token", u>> : u \in r.found}
        /\ remover' = next_run.remover
        /\ last' = [NoOp EXCEPT !.op = "run", !.outcome = r.outcome,
                                !.timer = next_run.timer]
  /\ UNCHANGED <<now, next_uuid, dao_policy, valid, removed>>
  /\ UNCHANGED legacy_vars
  /\ UNCHANGED session_vars

Next ==
  \/ Tick
  \/ \E reply \in BackendReplies, args \in RequestArgs : NewToken(reply, args)
  \/ \E token \in TokenIds : RemoveToken(token)
  \/ \E token_uuid \in TokenIds, required_acl \in RequiredAcls :
       Get(token_uuid, required_acl)
  \/ \E fails \in BOOLEAN : Run(fails)

Spec == Init /\ [][Next]_vars

\* ------------------------------------------- legacy Token (xivo_auth)
\* xivo_auth Token.__init__(token, auth_id, xivo_user_uuid, now_, later_, acls, name)
xivo_Token(token, auth_id, xivo_user_uuid, now_, later_, acls, name) ==
  [token |-> token, auth_id |-> auth_id, xivo_user_uuid |-> xivo_user_uuid,
   issued_at |-> now_, expires_at |-> later_, acls |-> acls, name |-> name]

\* the elements of a sequence
Range(seq) == {seq[i] : i \in 1..Len(seq)}

\* dict.keys(): the keys in the order the dict yields them
RECURSIVE dict_keys(_)
dict_keys(d) ==
  IF d = {} THEN <<>>
  ELSE LET k == CHOOSE x \in d : TRUE IN <<k>> \o dict_keys(d \ {k})

\* Token.to_consul; the acls dict {acl: acl} is the set of its keys
to_consul(self) ==
  [token |-> self.token, auth_id |-> self.auth_id,
   xivo_user_uuid |-> self.xivo_user_uuid,
   issued_at |-> self.issued_at, expires_at |-> self.expires_at,
   acls |-> IF Range(self.acls) = {} THEN None ELSE Some(Range(self.acls)),
   name |-> self.name]
\* from_consul passing the two instants to Token in the wrong order
from_consul_swaps_instants(d) ==
  LET acls == IF IsNone(d.acls) THEN {} ELSE Val(d.acls)
  IN xivo_Token(d.token, d.auth_id, d.xivo_user_uuid, d.expires_at, d.issued_at,
                dict_keys(acls), d.name)

\* Token.from_consul
from_consul(d) ==
  LET acls == IF IsNone(d.acls) THEN {} ELSE Val(d.acls)
  IN xivo_Token(d.token, d.auth_id, d.xivo_user_uuid, d.issued_at, d.expires_at,
                dict_keys(acls), d.name)

\* legacy Token.is_expired at clock reading t
xivo_is_expired(self, t) == self.expires_at # 0 /\ t > self.expires_at

\* legacy Token.matches_required_acl
xivo_matches_required_acl(self, required_acl) ==
  IsNone(required_acl) \/ Val(required_acl) \in Range(self.acls)

\* ------------------------------------------------------- legacy Storage
\* Storage._check_valid_token_id: UUID(hex=token_id) parses
check_valid_token_id(token_id) == token_id >= 1

\* Storage._get_token_name
get_token_name(c, token_id) ==
  IF token_id \in DOMAIN c.tokens THEN c.tokens[token_id].name ELSE None

\* Storage._get_token_id_by_name
get_token_id_by_name(c, token_name) ==
  IF token_name \in DOMAIN c.names THEN Some(c.names[token_name]) ELSE None

\* f with key k set to v
Put(f, k, v) == [x \in DOMAIN f \cup {k} |-> IF x = k THEN v ELSE f[x]]
\* f without key k
Del(f, k) == [x \in DOMAIN f \ {k} |-> f[x]]
\* get_token asking consul before it checks the id
storage_get_token_queries_first(c, token_id, fail_at) ==
  IF fail_at = 1
  THEN [outcome |-> "_ConsulConnectionException", token |-> None]
  ELSE IF ~check_valid_token_id(token_id) \/ token_id \notin DOMAIN c.tokens
  THEN [outcome |-> "UnknownTokenException", token |-> None]
  ELSE [outcome |-> "ok", token |-> Some(from_consul(c.tokens[token_id]))]

\* Storage.get_token; fail_at = k makes the k-th consul call raise
\* ConnectionError (0: none does)
storage_get_token(c, token_id, fail_at) ==
  IF ~check_valid_token_id(token_id)
  THEN [outcome |-> "UnknownTokenException", token |-> None]
  ELSE IF fail_at = 1
  THEN [outcome |-> "_ConsulConnectionException", token |-> None]
  ELSE IF token_id \notin DOMAIN c.tokens
  THEN [outcome |-> "UnknownTokenException", token |-> None]
  ELSE [outcome |-> "ok", token |-> Some(from_consul(c.tokens[token_id]))]

\* Storage.put_token; next is the id consul.acl.create hands out.  The
\* key-by-key writes of _push_token_data are taken as one consul call.
storage_put_token(c, next, token, rules, fail_at) ==
  LET looks_up == ~IsNone(token.name) \/ ~IsNone(token.token)
      indexed == IF IsNone(token.name) THEN None
                 ELSE get_token_id_by_name(c, Val(token.name))
      tokA == IF ~IsNone(token.name)
              THEN (IF IsNone(indexed) THEN token
                    ELSE [token EXCEPT !.token = indexed])
              ELSE IF ~IsNone(token.token)
                   THEN [token EXCEPT !.name = get_token_name(c, Val(token.token))]
                   ELSE token
      nA == IF looks_up THEN 1 ELSE 0
      nB == nA + 1
      creates == IsNone(tokA.token)
      tokB == IF creates THEN [tokA EXCEPT !.token = Some(next)] ELSE tokA
      id == Val(tokB.token)
      cB == [c EXCEPT !.acl = Put(c.acl, id, rules)]
      nextB == IF creates THEN next + 1 ELSE next
      indexes == ~IsNone(tokB.name)
      nC == IF indexes THEN nB + 1 ELSE nB
      cC == IF indexes THEN [cB EXCEPT !.names = Put(cB.names, Val(tokB.name), id)]
            ELSE cB
      nD == nC + 1
      cD == [cC EXCEPT !.tokens = Put(cC.tokens, id, to_consul(tokB))]
      failed(cc, nn, tok) == [outcome |-> "_ConsulConnectionException", consul |-> cc,
                              next |-> nn, token |-> tok]
  IN IF looks_up /\ fail_at = nA THEN failed(c, next, token)
     ELSE IF fail_at = nB THEN failed(c, next, tokA)
     ELSE IF indexes /\ fail_at = nC THEN failed(cB, nextB, tokB)
     ELSE IF fail_at = nD THEN failed(cC, nextB, tokB)
     ELSE [outcome |-> "ok", consul |-> cD, next |-> nextB, token |-> tokB]

\* Storage.remove_token
storage_remove_token(c, token_id, fail_at) ==
  IF ~check_valid_token_id(token_id)
  THEN [outcome |-> "UnknownTokenException", consul |-> c]
  ELSE
    LET token_name == get_token_name(c, token_id)
        c2 == [c EXCEPT !.acl = Del(c.acl, token_id)]
        c3 == [c2 EXCEPT !.tokens = Del(c2.tokens, token_id)]
        c4 == [c3 EXCEPT !.names = Del(c3.names, Val(token_name))]
        failed(cc) == [outcome |-> "_ConsulConnectionException", consul |-> cc]
    IN IF fail_at = 1 THEN failed(c)
       ELSE IF fail_at = 2 THEN failed(c)
       ELSE IF fail_at = 3 THEN failed(c2)
       ELSE IF IsNone(token_name) THEN [outcome |-> "ok", consul |-> c3]
       ELSE IF fail_at = 4 THEN failed(c3)
       ELSE [outcome |-> "ok", consul |-> c4]

\* ------------------------------------------------------- legacy Manager
\* '{token}'.format(token=token) of a token id
format_id(token_id) == [text |-> "id", of |-> token_id]
\* '{token}'.format(token=token) of a Token object: its default repr
format_object(token) == [text |-> "Token object", of |-> Val(token.token)]

\* Manager._get_token_hash: sha256 of the formatted argument
get_token_hash(text) == [sha256 |-> text]

\* _ConsulACLGenerator.create
acl_generator_create(acls) ==
  {[rule |-> "", policy |-> "deny"]} \cup Range(acls)

\* how the legacy backend may answer: get_ids raises or returns
\* (auth_id, xivo_user_uuid); get_consul_acls and get_acls return lists
LegacyReplies ==
  [ids_raises : BOOLEAN,
   ids : {<<"u1", "u1">>},
   consul_acls : {<<[rule |-> "xivo/private/u1", policy |-> "write"]>>},
   acls : {<<"acl1">>}]

LegacyArgs == [expiration : {Some(1)}]
LegacyRequiredAcls == {None, Some("acl1"), Some("acl2")}
\* consul calls of one operation that may fail: none, or the k-th
MaxConsulCalls == 4
FailAt == 0..MaxConsulCalls

\* legacy Manager.new_token at clock reading t
xivo_new_token(c, cel, next, reply, args, t, fail_at, rabbit_fails) ==
  IF reply.ids_raises
  THEN [outcome |-> "BackendException", token |-> None, consul |-> c,
        celery |-> cel, next |-> next]
  ELSE
    LET rules == acl_generator_create(reply.consul_acls)
        expiration == get_expiration(args)
        token == xivo_Token(None, reply.ids[1], reply.ids[2], t, t + expiration,
                            reply.acls, None)
        put == storage_put_token(c, next, token, rules, fail_at)
        task_id == get_token_hash(format_object(put.token))
        task == [task_id |-> task_id, token |-> Val(put.token.token),
                 due |-> t + expiration]
    IN IF put.outcome # "ok"
       THEN [outcome |-> put.outcome, token |-> None, consul |-> put.consul,
             celery |-> cel, next |-> put.next]
       ELSE IF rabbit_fails
       THEN [outcome |-> "_RabbitMQConnectionException", token |-> None,
             consul |-> put.consul, celery |-> cel, next |-> put.next]
       ELSE [outcome |-> "ok", token |-> Some(put.token), consul |-> put.consul,
             celery |-> [cel EXCEPT !.tasks = cel.tasks \cup {task}],
             next |-> put.next]

\* legacy Manager.remove_token
xivo_remove_token(c, cel, token, fail_at, rabbit_fails) ==
  LET task_id == get_token_hash(format_id(token))
      revoked == [cel EXCEPT !.revoked = cel.revoked \cup {task_id}]
      r == storage_remove_token(c, token, fail_at)
  IN IF rabbit_fails
     THEN [outcome |-> "_RabbitMQConnectionException", consul |-> c, celery |-> cel]
     ELSE [outcome |-> r.outcome, consul |-> r.consul, celery |-> revoked]

\* legacy Manager.remove_expired_token
xivo_remove_expired_token(c, token, fail_at) == storage_remove_token(c, token, fail_at)

\* legacy Manager.get at clock reading t
xivo_get(c, consul_token, required_acl, t, fail_at) ==
  LET r == storage_get_token(c, consul_token, fail_at)
  IN IF r.outcome # "ok" THEN r
     ELSE IF xivo_is_expired(Val(r.token), t)
     THEN [outcome |-> "UnknownTokenException", token |-> None]
     ELSE IF ~xivo_matches_required_acl(Val(r.token), required_acl)
     THEN [outcome |-> "MissingACLTokenException", token |-> None]
     ELSE r

\* ------------------------------------------------ legacy state machine
LegacyInit ==
  /\ now = 1
  /\ dao_token = <<>>
  /\ next_uuid = 1
  /\ dao_policy = <<>>
  /\ remover = [timers |-> 0]
  /\ last = NoOp
  /\ valid = <<>>
  /\ removed = {}
  /\ swept = {}
  /\ dao_session = EmptySessions
  /\ bus = <<>>
  /\ consul = EmptyConsul
  /\ celery = EmptyCelery
  /\ outages = 0

\* what a call met: consul unreachable from its first request on, rabbitmq
\* unreachable, the backend raising
Met(fail_at, rabbit_fails, backend_raises) ==
  [consul_down |-> fail_at = 1, rabbit_down |-> rabbit_fails,
   backend_raises |-> backend_raises]

\* a call that meets an unreachable service is counted, up to MaxOutages
Outage(fails) ==
  /\ fails => outages < MaxOutages
  /\ outages' = IF fails THEN outages + 1 ELSE outages

LegacyTick ==
  /\ now < MaxTime
  /\ now' = now + 1
  /\ last' = [NoOp EXCEPT !.op = "tick"]
  /\ UNCHANGED <<next_uuid, consul, celery, outages>>
  /\ UNCHANGED wazo_vars
  /\ UNCHANGED session_vars

\* POST /token on the legacy Manager
LegacyNewToken(reply, args, fail_at, rabbit_fails) ==
  /\ next_uuid <= MaxTokens
  /\ Outage(fail_at # 0 \/ rabbit_fails)
  /\ LET r == xivo_new_token(consul, celery, next_uuid, reply, args, now,
                             fail_at, rabbit_fails)
     IN /\ consul' = r.consul
        /\ celery' = r.celery
        /\ next_uuid' = r.next
        /\ last' = [NoOp EXCEPT !.op = "new_token", !.outcome = r.outcome,
                                !.token = r.token,
                                !.args = Some(Met(fail_at, rabbit_fails, reply.ids_raises))]
  /\ UNCHANGED now
  /\ UNCHANGED wazo_vars
  /\ UNCHANGED session_vars

\* DELETE /token/<id> on the legacy Manager
LegacyRemoveToken(token, fail_at, rabbit_fails) ==
  /\ Outage(fail_at # 0 \/ rabbit_fails)
  /\ LET r == xivo_remove_token(consul, celery, token, fail_at, rabbit_fails)
     IN /\ consul' = r.consul
        /\ celery' = r.celery
        /\ last' = [NoOp EXCEPT !.op = "remove_token", !.id = Some(token),
                                !.outcome = r.outcome,
                                !.args = Some(Met(fail_at, rabbit_fails, FALSE))]
  /\ UNCHANGED <<now, next_uuid>>
  /\ UNCHANGED wazo_vars
  /\ UNCHANGED session_vars

\* GET|HEAD /token/<id> on the legacy Manager
LegacyGet(consul_token, required_acl, fail_at) ==
  /\ Outage(fail_at # 0)
  /\ LET r == xivo_get(consul, consul_token, required_acl, now, fail_at)
     IN last' = [NoOp EXCEPT !.op = "get", !.id = Some(consul_token),
                             !.outcome = r.outcome, !.token = r.token,
                             !.args = Some(Met(fail_at, FALSE, FALSE))]
  /\ UNCHANGED <<now, next_uuid, consul, celery>>
  /\ UNCHANGED wazo_vars
  /\ UNCHANGED session_vars

\* a scheduled clean_token task that was not revoked comes due and calls
\* Manager.remove_expired_token
CleanTokenTask(token, fail_at) ==
  /\ \E task \in celery.tasks :
       /\ task.token = token
       /\ task.task_id \notin celery.revoked
       /\ now >= task.due
       /\ celery' = [celery EXCEPT !.tasks = celery.tasks \ {task}]
  /\ Outage(fail_at # 0)
  /\ LET r == xivo_remove_expired_token(consul, token, fail_at)
     IN /\ consul' = r.consul
        /\ last' = [NoOp EXCEPT !.op = "clean_token", !.id = Some(token),
                                !.outcome = r.outcome]
  /\ UNCHANGED <<now, next_uuid>>
  /\ UNCHANGED wazo_vars
  /\ UNCHANGED session_vars

\* the tokens Storage.put_token is handed directly: named, or with a known id
PutTokens ==
  {xivo_Token(id, "u1", "u1", 1, 2, <<"acl1">>, name) :
     id \in {None, Some(1)},
     name \in {None, Some("n1"), Some("n2")}}

\* Storage.put_token called with a token that carries a name or an id; an
\* id a caller knows is one consul has handed out
StoragePutToken(token, fail_at) ==
  /\ ~IsNone(token.name) \/ ~IsNone(token.token)
  /\ IsNone(token.token) => next_uuid <= MaxTokens
  /\ ~IsNone(token.token) => Val(token.token) < next_uuid
  /\ Outage(fail_at # 0)
  /\ LET r == storage_put_token(consul, next_uuid, token,
                                acl_generator_create(<<>>), fail_at)
     IN /\ consul' = r.consul
        /\ next_uuid' = r.next
        /\ last' = [NoOp EXCEPT !.op = "put_token", !.outcome = r.outcome,
                                !.token = Some(r.token)]
  /\ UNCHANGED <<now, celery>>
  /\ UNCHANGED wazo_vars
  /\ UNCHANGED session_vars

LegacyNext ==
  \/ LegacyTick
  \/ \E reply \in LegacyReplies, args \in LegacyArgs, fail_at \in FailAt,
        rabbit_fails \in BOOLEAN :
       LegacyNewToken(reply, args, fail_at, rabbit_fails)
  \/ \E token \in TokenIds, fail_at \in FailAt, rabbit_fails \in BOOLEAN :
       LegacyRemoveToken(token, fail_at, rabbit_fails)
  \/ \E consul_token \in TokenIds, required_acl \in LegacyRequiredAcls,
        fail_at \in FailAt :
       LegacyGet(consul_token, required_acl, fail_at)
  \/ \E token \in TokenIds, fail_at \in FailAt : CleanTokenTask(token, fail_at)
  \/ \E token \in PutTokens, fail_at \in FailAt : StoragePutToken(token, fail_at)

LegacySpec == LegacyInit /\ [][LegacyNext]_vars

\* ------------------------- session-aware sweeper (newer variant, 4.4, 4.5)
\* the session table hands out at most MaxSessions session ids
MaxSessions == 2

\* the elements of a set of numbers, in ascending order
RECURSIVE SortedIds(_)
SortedIds(ids) ==
  IF ids = {} THEN <<>>
  ELSE LET least == CHOOSE x \in ids : \A y \in ids : x <= y
       IN <<least>> \o SortedIds(ids \ {least})

\* a token record of the newer variant: the payload and the session it is
\* linked to, if any
session_token_payload(metadata, session_uuid, expiration, t) ==
  [auth_id |-> metadata.auth_id,
   expire_t |-> t + expiration,
   issued_t |-> t,
   session_uuid |-> session_uuid,
   metadata |-> metadata]

\* bulk expiry that returns the deleted sessions but leaves them in the table
delete_expired_tokens_and_sessions_keeps_sessions(store, sessions, deleted, t) ==
  LET expired == {u \in DOMAIN store : store[u].expire_t < t}
  IN [tokens |-> [i \in 1..Cardinality(expired) |->
                    [uuid |-> SortedIds(expired)[i], data |-> store[SortedIds(expired)[i]]]],
      sessions |-> SortedIds(deleted),
      store |-> [u \in DOMAIN store \ expired |-> store[u]],
      session_table |-> sessions]

\* the store's delete_expired_tokens_and_sessions at clock reading t:
\* returns (expiredTokens, deletedSessions) and has removed both; deleted
\* is the set of sessions the store chose to delete
delete_expired_tokens_and_sessions(store, sessions, deleted, t) ==
  LET expired == {u \in DOMAIN store : store[u].expire_t < t}
  IN [tokens |-> [i \in 1..Cardinality(expired) |->
                    [uuid |-> SortedIds(expired)[i], data |-> store[SortedIds(expired)[i]]]],
      sessions |-> SortedIds(deleted),
      store |-> [u \in DOMAIN store \ expired |-> store[u]],
      session_table |-> [sessions EXCEPT !.live = sessions.live \ deleted]]

\* the first token of the batch, whatever its session
correlated_token_any(tokens, session_uuid) ==
  IF tokens = <<>> THEN None ELSE Some(tokens[1])

\* step 3: a token of the batch whose session_uuid matches, or None
correlated_token(tokens, session_uuid) ==
  LET hits == {i \in 1..Len(tokens) : tokens[i].data.session_uuid = Some(session_uuid)}
  IN IF hits = {} THEN None ELSE Some(tokens[SortedIds(hits)[1]])

\* steps 3 and 4: the session-deleted event of one deleted session
session_deleted_event(tokens, session_uuid) ==
  LET token == correlated_token(tokens, session_uuid)
  IN [session_uuid |-> session_uuid,
      user_uuid |-> IF IsNone(token) THEN None ELSE Some(Val(token).data.auth_id),
      tenant_uuid |-> IF IsNone(token) THEN None
                      ELSE Val(token).data.metadata.tenant_uuid]

\* events only for the sessions that have a token in the batch
publish_session_events_skip_unmatched(tokens, sessions) ==
  LET kept == SelectSeq(sessions, LAMBDA s : ~IsNone(correlated_token(tokens, s)))
  IN [i \in 1..Len(kept) |-> session_deleted_event(tokens, kept[i])]

\* the events one successful sweep publishes: one per deleted session
publish_session_events(tokens, sessions) ==
  [i \in 1..Len(sessions) |-> session_deleted_event(tokens, sessions[i])]

\* one sweep of the newer variant: the bulk expire-and-collect, then the
\* events; a failure of the store is logged and swallowed
session_cleanup(store, sessions, deleted, fails, t) ==
  IF fails
  THEN [outcome |-> "swallowed", store |-> store, session_table |-> sessions,
        events |-> <<>>, found |-> {}]
  ELSE LET r == delete_expired_tokens_and_sessions(store, sessions, deleted, t)
       IN [outcome |-> "ok", store |-> r.store, session_table |-> r.session_table,
           events |-> publish_session_events(r.tokens, r.sessions),
           found |-> {<<"token", r.tokens[i].uuid>> : i \in 1..Len(r.tokens)}
                       \cup {<<"session", r.sessions[i]>> : i \in 1..Len(r.sessions)}]

SessionInit ==
  /\ now = 1
  /\ dao_token = <<>>
  /\ next_uuid = 1
  /\ dao_policy = <<>>
  /\ remover = [timers |-> 1]
  /\ last = NoOp
  /\ valid = <<>>
  /\ removed = {}
  /\ swept = {}
  /\ dao_session = EmptySessions
  /\ bus = <<>>
  /\ consul = EmptyConsul
  /\ celery = EmptyCelery
  /\ outages = 0

SessionTick ==
  /\ now < MaxTime
  /\ now' = now + 1
  /\ last' = [NoOp EXCEPT !.op = "tick"]
  /\ UNCHANGED <<dao_token, next_uuid, dao_policy, remover, valid, removed, swept>>
  /\ UNCHANGED session_vars
  /\ UNCHANGED legacy_vars

\* a token is issued without a session (session = 0), in a session that
\* exists, or in a session created for it (session = the next session id)
SessionNewToken(backend, session, expiration) ==
  /\ next_uuid <= MaxTokens
  /\ session = 0 \/ session \in dao_session.live
       \/ (session = dao_session.next /\ session <= MaxSessions)
  /\ LET link == IF session = 0 THEN None ELSE Some(session)
         payload == session_token_payload(BackendMetadata[backend], link,
                                          expiration, now)
         created == dao_token_create(dao_token, next_uuid, payload)
     IN /\ dao_token' = created.store
        /\ next_uuid' = next_uuid + 1
        /\ last' = [NoOp EXCEPT !.op = "new_token", !.id = Some(created.uuid)]
  /\ dao_session' = IF session = dao_session.next
                    THEN [live |-> dao_session.live \cup {session},
                          next |-> dao_session.next + 1]
                    ELSE dao_session
  /\ UNCHANGED <<now, dao_policy, remover, valid, removed, swept, bus>>
  /\ UNCHANGED legacy_vars

\* remove_token: the token goes, its session stays
SessionRemoveToken(token) ==
  /\ dao_token' = remove_token(dao_token, token).store
  /\ last' = [NoOp EXCEPT !.op = "remove_token", !.id = Some(token)]
  /\ UNCHANGED <<now, next_uuid, dao_policy, remover, valid, removed, swept>>
  /\ UNCHANGED session_vars
  /\ UNCHANGED legacy_vars

\* one tick of the sweeper of 4.5: steps 1 to 5
SessionRun(fails, deleted) ==
  /\ remover.timers > 0
  /\ deleted \subseteq dao_session.live
  /\ fails => deleted = {}
  /\ LET r == session_cleanup(dao_token, dao_session, deleted, fails, now)
         next_run == reschedule([remover EXCEPT !.timers = remover.timers - 1],
                                token_cleanup_interval)
     IN /\ dao_token' = r.store
        /\ dao_session' = r.session_table
        /\ bus' = bus \o r.events
        /\ swept' = swept \cup r.found
        /\ remover' = next_run.remover
        /\ last' = [NoOp EXCEPT !.op = "run", !.outcome = r.outcome,
                                !.timer = next_run.timer]
  /\ UNCHANGED <<now, next_uuid, dao_policy, valid, removed>>
  /\ UNCHANGED legacy_vars

SessionNext ==
  \/ SessionTick
  \/ \E backend \in BackendNames, session \in 0..MaxSessions,
        expiration \in {1, default_token_lifetime} :
       SessionNewToken(backend, session, expiration)
  \/ \E token \in TokenIds : SessionRemoveToken(token)
  \/ \E fails \in BOOLEAN, deleted \in SUBSET (1..MaxSessions) :
       SessionRun(fails, deleted)

SessionSpec == SessionInit /\ [][SessionNext]_vars

\* ------------------------------------------------ the ACL matcher alone
\* the longest text after 'a.' in a required permission
MaxSuffix == 4

\* all strings over chars of length <= n
RECURSIVE Strings(_, _)
Strings(chars, n) ==
  IF n = 0 THEN {<<>>}
  ELSE LET shorter == Strings(chars, n - 1)
       IN shorter \cup {<<c>> \o s : c \in chars, s \in {x \in shorter : Len(x) = n - 1}}

\* the granted templates a token is built with
AclTemplates ==
  {<<"a", ".", "*", ".", "c">>, <<"a", ".", "*">>, <<"*", ".", "c">>,
   <<"a", ".", "#">>, <<"a", ".", "b", ".", "#">>,
   <<"a", ".", "b", ".", "m", "e">>, <<"a", ".", "m", "e", ".", "b">>,
   <<"a", ".", "b">>, <<"b", ".", "c">>, <<"b">>}

\* the acls of a token: no template, one template, or two of them
AclLists ==
  {<<>>} \cup {<<acl>> : acl \in AclTemplates}
    \cup {<<<<"a", ".", "b">>, <<"a", ".", "*", ".", "c">>>>}

\* the principals: what a backend returns as auth_id
AclAuthIds == {<<"u", "1">>, <<"u", ".", "1">>, <<"u", "2", "1">>}

\* the required permissions of a lookup: 'a.' followed by any text of at
\* most MaxSuffix characters, 'a.b.<id>' and 'a.<id>.b' for every principal
\* and for 'me', and one permission outside 'a.'
AclPermissions ==
  {<<"a", ".">> \o s : s \in Strings({"b", "c", ".", "\n"}, MaxSuffix)}
    \cup {<<"a", ".", "b", ".">> \o id : id \in AclAuthIds \cup {<<"m", "e">>}}
    \cup {<<"a", ".">> \o id \o <<".", "b">> : id \in AclAuthIds \cup {<<"m", "e">>}}
    \cup {<<"b", ".", "c">>}

\* a Token of principal auth_id granted the templates acls
AclToken(auth_id, acls) ==
  Token(1, [auth_id |-> auth_id, xivo_user_uuid |-> None,
            xivo_uuid |-> "the-predefined-xivo-uuid", issued_t |-> 1,
            expire_t |-> 1 + default_token_lifetime, acls |-> acls,
            metadata |-> [auth_id |-> auth_id]])

AclInit ==
  /\ now = 1
  /\ dao_token = <<>>
  /\ next_uuid = 1
  /\ dao_policy = <<>>
  /\ remover = [timers |-> 0]
  /\ \E auth_id \in AclAuthIds, acls \in AclLists,
        required_acl \in {None} \cup {Some(p) : p \in AclPermissions} :
       last = [NoOp EXCEPT !.op = "token", !.token = Some(AclToken(auth_id, acls)),
                           !.acl = required_acl]
  /\ valid = <<>>
  /\ removed = {}
  /\ swept = {}
  /\ dao_session = EmptySessions
  /\ bus = <<>>
  /\ consul = EmptyConsul
  /\ celery = EmptyCelery
  /\ outages = 0

\* token.matches_required_acl(required_acl) on the token and permission drawn
MatchesRequiredAcl ==
  /\ last.op = "token"
  /\ last' = [last EXCEPT
                !.op = "matches_required_acl",
                !.outcome = IF matches_required_acl(Val(last.token), last.acl)
                            THEN "True" ELSE "False"]
  /\ UNCHANGED <<now, next_uuid>>
  /\ UNCHANGED wazo_vars
  /\ UNCHANGED session_vars
  /\ UNCHANGED legacy_vars

AclNext == MatchesRequiredAcl

AclSpec == AclInit /\ [][AclNext]_vars
\* --------------------------------------------- the tenant tree alone (4.2)
\* how many tenants a listing holds under the top tenant
MaxTenants == 4

TenantNames == <<"t1", "t2", "t3", "t4", "t5">>
Tenants == {TenantNames[i] : i \in 1..MaxTenants}

\* following parent_uuid from x reaches the top tenant in at most n steps
RECURSIVE ReachesTop(_, _, _)
ReachesTop(parent, x, n) ==
  IF x = "top" THEN TRUE
  ELSE IF n = 0 THEN FALSE
  ELSE ReachesTop(parent, parent[x], n - 1)

\* the flat listings tenant_dao.list_() returns: the top tenant, its own
\* parent, and every other tenant parented under it, at any depth
TenantListings ==
  {{[uuid |-> "top", parent_uuid |-> "top"]}
     \cup {[uuid |-> x, parent_uuid |-> parent[x]] : x \in Tenants} :
   parent \in {p \in [Tenants -> Tenants \cup {"top"}] :
                 \A x \in Tenants : ReachesTop(p, x, MaxTenants)}}

\* the uuids list_nodes is asked about: every tenant and one that is not listed
NodeIds == Tenants \cup {"top", "absent"}

TreeInit ==
  /\ now = 1
  /\ dao_token = <<>>
  /\ next_uuid = 1
  /\ dao_policy = <<>>
  /\ remover = [timers |-> 0]
  /\ \E listing \in TenantListings, nid \in NodeIds :
       last = [NoOp EXCEPT !.op = "tenant_tree", !.args = Some(listing), !.id = Some(nid)]
  /\ valid = <<>>
  /\ removed = {}
  /\ swept = {}
  /\ dao_session = EmptySessions
  /\ bus = <<>>
  /\ consul = EmptyConsul
  /\ celery = EmptyCelery
  /\ outages = 0

\* TenantTree(tenant_dao).list_nodes(nid) on the listing and uuid drawn
ListNodes ==
  /\ last.op = "tenant_tree"
  /\ last' = [last EXCEPT !.op = "list_nodes",
                          !.reply = Some(list_nodes(Val(last.args), Val(last.id)))]
  /\ UNCHANGED <<now, next_uuid>>
  /\ UNCHANGED wazo_vars
  /\ UNCHANGED session_vars
  /\ UNCHANGED legacy_vars

TreeNext == ListNodes

TreeSpec == TreeInit /\ [][TreeNext]_vars
\* ------------------------------- the store-facing form of a token alone
\* how many acls a token of the round trip carries at most
MaxAcls == 2

RECURSIVE Lists(_, _)
\* all lists over elems of length <= n
Lists(elems, n) ==
  IF n = 0 THEN {<<>>}
  ELSE LET shorter == Lists(elems, n - 1)
       IN shorter \cup {<<e>> \o s : e \in elems, s \in {x \in shorter : Len(x) = n - 1}}

\* the tokens serialized: with or without an id, a user uuid, a name, acls
ConsulTokens ==
  {xivo_Token(id, auth_id, xivo_user_uuid, now_, later_, acls, name) :
     id \in {None, Some(1)},
     auth_id \in {"u1"},
     xivo_user_uuid \in {None, Some("u1")},
     now_ \in {1},
     later_ \in {0, 2, 3},
     acls \in Lists({"acl1", "acl2"}, MaxAcls),
     name \in {None, Some("n1")}}

RoundTripInit ==
  /\ now = 1
  /\ dao_token = <<>>
  /\ next_uuid = 1
  /\ dao_policy = <<>>
  /\ remover = [timers |-> 0]
  /\ \E token \in ConsulTokens :
       last = [NoOp EXCEPT !.op = "xivo_token", !.args = Some(token)]
  /\ valid = <<>>
  /\ removed = {}
  /\ swept = {}
  /\ dao_session = EmptySessions
  /\ bus = <<>>
  /\ consul = EmptyConsul
  /\ celery = EmptyCelery
  /\ outages = 0

\* token.to_consul()
ToConsul ==
  /\ last.op = "xivo_token"
  /\ last' = [last EXCEPT !.op = "to_consul", !.reply = Some(to_consul(Val(last.args)))]
  /\ UNCHANGED <<now, next_uuid>>
  /\ UNCHANGED wazo_vars
  /\ UNCHANGED session_vars
  /\ UNCHANGED legacy_vars

\* Token.from_consul(d) on the dict to_consul gave
FromConsul ==
  /\ last.op = "to_consul"
  /\ last' = [last EXCEPT !.op = "from_consul",
                          !.token = Some(from_consul(Val(last.reply)))]
  /\ UNCHANGED <<now, next_uuid>>
  /\ UNCHANGED wazo_vars
  /\ UNCHANGED session_vars
  /\ UNCHANGED legacy_vars

RoundTripNext == ToConsul \/ FromConsul

RoundTripSpec == RoundTripInit /\ [][RoundTripNext]_vars
\* ------------------------------------------ the serialized form of a token
\* datetime.fromtimestamp(t).isoformat(): the wall clock of the local zone,
\* utc_offset seconds ahead of UTC, written without a zone; the text is
\* stood for by the seconds it spells
format_local_time(t, utc_offset) == IF t = 0 THEN None ELSE Some(t + utc_offset)

\* datetime.utcfromtimestamp(t).isoformat()
format_utc_time(t) == IF t = 0 THEN None ELSE Some(t)

\* to_dict taking utc_issued_at from the expiry
to_dict_utc_issued_from_expiry(self, utc_offset) ==
  [token |-> self.token,
   auth_id |-> self.auth_id,
   xivo_user_uuid |-> self.xivo_user_uuid,
   xivo_uuid |-> self.xivo_uuid,
   issued_at |-> format_local_time(self.issued_t, utc_offset),
   expires_at |-> format_local_time(self.expire_t, utc_offset),
   utc_issued_at |-> format_utc_time(self.expire_t),
   utc_expires_at |-> format_utc_time(self.expire_t),
   acls |-> self.acls,
   metadata |-> self.metadata]

\* Token.to_dict in a process whose local zone is utc_offset ahead of UTC
to_dict(self, utc_offset) ==
  [token |-> self.token,
   auth_id |-> self.auth_id,
   xivo_user_uuid |-> self.xivo_user_uuid,
   xivo_uuid |-> self.xivo_uuid,
   issued_at |-> format_local_time(self.issued_t, utc_offset),
   expires_at |-> format_local_time(self.expire_t, utc_offset),
   utc_issued_at |-> format_utc_time(self.issued_t),
   utc_expires_at |-> format_utc_time(self.expire_t),
   acls |-> self.acls,
   metadata |-> self.metadata]

\* the local zones of the process, in clock ticks ahead of UTC
UtcOffsets == {0 - 1, 0, 1}

\* the tokens serialized; an instant of 0 is one the code treats as unset
DictTokens ==
  {Token(1, [auth_id |-> <<"u", "1">>, xivo_user_uuid |-> xivo_user_uuid,
             xivo_uuid |-> "the-predefined-xivo-uuid", issued_t |-> issued_t,
             expire_t |-> expire_t, acls |-> acls,
             metadata |-> [auth_id |-> <<"u", "1">>]]) :
     xivo_user_uuid \in {None, Some("u1")},
     issued_t \in 0..MaxTime,
     expire_t \in 0..MaxTime,
     acls \in {<<>>, << <<"a", ".", "*">> >>}}

ToDictInit ==
  /\ now = 1
  /\ dao_token = <<>>
  /\ next_uuid = 1
  /\ dao_policy = <<>>
  /\ remover = [timers |-> 0]
  /\ \E token \in DictTokens, utc_offset \in UtcOffsets :
       last = [NoOp EXCEPT !.op = "token", !.token = Some(token),
                           !.args = Some([utc_offset |-> utc_offset])]
  /\ valid = <<>>
  /\ removed = {}
  /\ swept = {}
  /\ dao_session = EmptySessions
  /\ bus = <<>>
  /\ consul = EmptyConsul
  /\ celery = EmptyCelery
  /\ outages = 0

\* token.to_dict()
ToDict ==
  /\ last.op = "token"
  /\ last' = [last EXCEPT !.op = "to_dict",
                          !.reply = Some(to_dict(Val(last.token), Val(last.args).utc_offset))]
  /\ UNCHANGED <<now, next_uuid>>
  /\ UNCHANGED wazo_vars
  /\ UNCHANGED session_vars
  /\ UNCHANGED legacy_vars

ToDictNext == ToDict

ToDictSpec == ToDictInit /\ [][ToDictNext]_vars
\* ------------------------------------------------- groups (PUT /groups/<uuid>)
\* the groups of the test: two in the top tenant, one in a sub-tenant
GroupTable ==
  [g1 |-> [name |-> "foobar", tenant_uuid |-> "top"],
   g2 |-> [name |-> "duplicate", tenant_uuid |-> "top"],
   g3 |-> [name |-> "sub", tenant_uuid |-> "t1"]]

\* the uuids a request names (one of no group) and the bodies it carries:
\* {'name': 'foobaz'}, {'name': 'foobar'}, {}, {'name': None}, {'name': 42}
GroupUuids == {"g1", "g2", "g3", "unknown"}
GroupBodies ==
  {[name |-> "str", text |-> "foobaz"], [name |-> "str", text |-> "foobar"],
   [name |-> "missing", text |-> ""], [name |-> "null", text |-> ""],
   [name |-> "int", text |-> "42"]}

\* group_service.assert_group_in_subtenant: the group exists and its tenant
\* is the scoping tenant or below it
assert_group_in_subtenant(groups, scoping_tenant_uuid, group_uuid) ==
  /\ group_uuid \in DOMAIN groups
  /\ groups[group_uuid].tenant_uuid \in list_nodes(TenantListing, scoping_tenant_uuid)

\* GroupRequestSchema().load(body): the errors, none when name is a string
GroupRequestSchema_load(body) ==
  IF body.name # "str" THEN {"name"} ELSE {}

\* group_service.update: a name another group carries is a conflict
group_service_update(groups, group_uuid, name) ==
  IF \E g \in DOMAIN groups : g # group_uuid /\ groups[g].name = name
  THEN [outcome |-> "ConflictException", groups |-> groups]
  ELSE [outcome |-> "ok", groups |-> [groups EXCEPT ![group_uuid].name = name]]

\* Group.put validating the body before it looks for the group
put_validates_first(groups, scoping_tenant_uuid, group_uuid, body) ==
  IF GroupRequestSchema_load(body) # {}
  THEN [outcome |-> "GroupParamException", groups |-> groups]
  ELSE IF ~assert_group_in_subtenant(groups, scoping_tenant_uuid, group_uuid)
  THEN [outcome |-> "UnknownGroupException", groups |-> groups]
  ELSE group_service_update(groups, group_uuid, body.text)

\* Group.put
put(groups, scoping_tenant_uuid, group_uuid, body) ==
  IF ~assert_group_in_subtenant(groups, scoping_tenant_uuid, group_uuid)
  THEN [outcome |-> "UnknownGroupException", groups |-> groups]
  ELSE IF GroupRequestSchema_load(body) # {}
  THEN [outcome |-> "GroupParamException", groups |-> groups]
  ELSE group_service_update(groups, group_uuid, body.text)

\* the group table is carried in last.args, the request in last.id and
\* last.reply
GroupInit ==
  /\ now = 1
  /\ dao_token = <<>>
  /\ next_uuid = 1
  /\ dao_policy = <<>>
  /\ remover = [timers |-> 0]
  /\ last = [NoOp EXCEPT !.op = "groups", !.args = Some(GroupTable)]
  /\ valid = <<>>
  /\ removed = {}
  /\ swept = {}
  /\ dao_session = EmptySessions
  /\ bus = <<>>
  /\ consul = EmptyConsul
  /\ celery = EmptyCelery
  /\ outages = 0

\* PUT /groups/<group_uuid> by a caller whose scoping tenant is given
GroupPut(scoping_tenant_uuid, group_uuid, body) ==
  /\ last.op \in {"groups", "put"}
  /\ LET r == put(Val(last.args), scoping_tenant_uuid, group_uuid, body)
     IN last' = [NoOp EXCEPT !.op = "put", !.args = Some(r.groups),
                             !.id = Some(group_uuid), !.outcome = r.outcome,
                             !.reply = Some([scoping_tenant_uuid |-> scoping_tenant_uuid,
                                             body |-> body])]
  /\ UNCHANGED <<now, next_uuid>>
  /\ UNCHANGED wazo_vars
  /\ UNCHANGED session_vars
  /\ UNCHANGED legacy_vars

GroupNext ==
  \E scoping_tenant_uuid \in {n.uuid : n \in TenantListing},
     group_uuid \in GroupUuids, body \in GroupBodies :
    GroupPut(scoping_tenant_uuid, group_uuid, body)

GroupSpec == GroupInit /\ [][GroupNext]_vars
\* ------------------------------------------------------------------------
\* TenantTree, step by step: the adjacency built by one pass over the flat
\* listing, and list_nodes as a traversal of it that visits one tenant per
\* step (services/helpers.py is not part of the sources; the construction
\* and the traversal follow the contract of the Tenant Tree)

\* TenantTree construction with the top tenant listed among its own children
build_tree_keeps_self(listing) ==
  [u \in {n.uuid : n \in listing} |->
     {n.uuid : n \in {m \in listing : m.parent_uuid = u}}]

\* TenantTree construction: parent -> children, one pass over the listing;
\* the top tenant, its own parent, is nobody's child
build_tree(listing) ==
  [u \in {n.uuid : n \in listing} |->
     {n.uuid : n \in {m \in listing : m.parent_uuid = u /\ m.uuid # u}}]

\* one step of list_nodes: take a tenant off the pending ones, add it to
\* the result and make its children pending
visit(walk) ==
  LET n == CHOOSE x \in walk.todo : TRUE
  IN [walk EXCEPT !.todo = (walk.todo \ {n}) \cup walk.children[n],
                  !.out = Append(walk.out, n)]

\* TenantTree(tenant_dao), then list_nodes(nid) about to start: nid is the
\* only pending tenant, or none is when nid is not listed
BuildTree ==
  /\ last.op = "tenant_tree"
  /\ LET children == build_tree(Val(last.args))
     IN last' = [last EXCEPT !.op = "list_nodes_walk",
                             !.reply = Some([children |-> children,
                                             todo |-> {Val(last.id)} \cap DOMAIN children,
                                             out |-> <<>>])]
  /\ UNCHANGED <<now, next_uuid>>
  /\ UNCHANGED wazo_vars
  /\ UNCHANGED session_vars
  /\ UNCHANGED legacy_vars

\* list_nodes visits the next pending tenant; the walk is followed for one
\* visit more than there are tenants in the listing
Visit ==
  /\ last.op = "list_nodes_walk"
  /\ Val(last.reply).todo # {}
  /\ Len(Val(last.reply).out) <= Cardinality(Val(last.args))
  /\ last' = [last EXCEPT !.reply = Some(visit(Val(last.reply)))]
  /\ UNCHANGED <<now, next_uuid>>
  /\ UNCHANGED wazo_vars
  /\ UNCHANGED session_vars
  /\ UNCHANGED legacy_vars

WalkNext == BuildTree \/ Visit

WalkSpec == TreeInit /\ [][WalkNext]_vars

\* construction and traversal are ordinary sequential code: a step that can
\* be taken is taken
WalkLiveSpec == WalkSpec /\ WF_vars(WalkNext)

\* ----------------------------------------------------------------- claims
\* what a lookup is about in the state before it
GetId == Val(last'.id)
Present(u) == u \in DOMAIN dao_token
\* the current time is past the stored expire_t
Past(u) == now > dao_token[u].expire_t
\* some granted template of the stored token matches the permission
SomeTemplateMatches(u, perm) ==
  \E i \in 1..Len(dao_token[u].acls) :
    re_match(transform_acl_to_regex(dao_token[u].acls[i]), perm, dao_token[u].auth_id)

\* C1: Manager.get fails with UnknownToken whenever the store has no record
\* for the id and whenever the record is there but the current time is past
\* its expire_t, for every required ACL, None included.
C1_GetUnknownToken ==
  [][last'.op = "get" /\ (~Present(GetId) \/ Past(GetId))
       => last'.outcome = "UnknownTokenException" /\ IsNone(last'.token)]_vars

\* C1 witness: a lookup of an expired token still in the store, with a required
\* ACL, answered UnknownToken
C1_Witness ==
  /\ last.op = "get"
  /\ ~IsNone(last.acl)
  /\ Val(last.id) \in DOMAIN dao_token
  /\ now > dao_token[Val(last.id)].expire_t
  /\ last.outcome = "UnknownTokenException"

\* C2: Manager.get fails with MissingACL exactly when the token is in the
\* store, is not expired, and a permission is required that none of its
\* granted templates matches; when the token is there, not expired, and the
\* required ACL is None or matched, get returns the token with the stored
\* fields.
C2_GetMissingACL ==
  [][last'.op = "get" =>
       LET valid_token == Present(GetId) /\ ~Past(GetId)
           matched == IsNone(last'.acl) \/ SomeTemplateMatches(GetId, Val(last'.acl))
       IN /\ last'.outcome = "MissingACLTokenException" <=> (valid_token /\ ~matched)
          /\ (valid_token /\ matched) =>
               /\ last'.outcome = "ok"
               /\ last'.token = Some(Token(GetId, dao_token[GetId]))]_vars

\* C2 witness: a lookup of an unexpired token refused with MissingACL
C2_Witness ==
  /\ last.op = "get"
  /\ last.outcome = "MissingACLTokenException"
  /\ Val(last.id) \in DOMAIN dao_token
  /\ dao_token[Val(last.id)].acls # <<>>

\* C3: when the backend raises in get_metadata or in get_acls, new_token
\* propagates the exception, calls each backend method at most once, never
\* calls the store's create, and leaves the token table as it was.
C3_BackendFailureCreatesNothing ==
  [][(last'.op = "new_token"
        /\ (Val(last'.reply).metadata_raises \/ Val(last'.reply).acls_raises))
       => /\ last'.outcome = "BackendException"
          /\ IsNone(last'.token)
          /\ dao_token' = dao_token
          /\ next_uuid' = next_uuid
          /\ \A i \in 1..Len(last'.calls) : last'.calls[i] # "create"
          /\ Cardinality({i \in 1..Len(last'.calls) : last'.calls[i] = "get_metadata"}) = 1
          /\ Cardinality({i \in 1..Len(last'.calls) : last'.calls[i] = "get_acls"}) <= 1]_vars

\* C3 witness: get_acls raised after get_metadata succeeded, with a token
\* already in the store from an earlier issuance
C3_Witness ==
  /\ last.op = "new_token"
  /\ Val(last.reply).acls_raises
  /\ last.outcome = "BackendException"
  /\ dao_token # <<>>

\* C4: the token new_token returns carries the id the store's create
\* assigned and is the stored record; and as long as a returned token has not
\* been removed and the clock has not reached its expire_t, get(id, None)
\* returns a token equal to it field by field, whatever else happened since.
C4_IssuedTokenRetrievable ==
  /\ (last.op = "new_token" /\ last.outcome = "ok") =>
       LET T == Val(last.token)
       IN /\ T.token = next_uuid - 1
          /\ T.token \in DOMAIN dao_token
          /\ Token(T.token, dao_token[T.token]) = T
  /\ \A u \in DOMAIN valid :
       now < valid[u].expire_t =>
         LET r == get(dao_token, u, None, now)
         IN r.outcome = "ok" /\ r.token = Some(valid[u])

\* C4 witness: a token is still retrievable after time passed, another token
\* was issued and removed, and a sweep ran
C4_Witness ==
  /\ last.op = "run"
  /\ last.outcome = "ok"
  /\ removed # {}
  /\ \E u \in DOMAIN valid : valid[u].issued_t < now /\ now < valid[u].expire_t


\* C5: legacy remove_token on a token id that is not in the store (never
\* issued, already removed, or not a well-formed id), with consul and
\* rabbitmq reachable, does not raise and leaves the stored tokens as they
\* were, so a second remove_token of the same id changes nothing either
C5_RemoveAbsentDoesNotRaise ==
  [][(/\ last'.op = "remove_token"
      /\ Val(last'.id) \notin DOMAIN consul.tokens
      /\ outages' = outages)
     => (/\ last'.outcome = "ok"
         /\ consul'.tokens = consul.tokens)]_vars

\* C6: once remove_token(id) has completed for an issued token, every later
\* get(id, acl) fails with UnknownToken.
C6_RemovedStaysUnknown ==
  /\ \A u \in removed : \A acl \in RequiredAcls :
       get(dao_token, u, acl, now).outcome = "UnknownTokenException"
  /\ (last.op = "get" /\ Val(last.id) \in removed)
       => last.outcome = "UnknownTokenException"

\* C6 witness: a get of a token that was removed before it expired, after
\* another token was issued
C6_Witness ==
  /\ last.op = "get"
  /\ Val(last.id) \in removed
  /\ Val(last.id) = 1
  /\ next_uuid = 3
  /\ now = 1

\* C7: Manager.get never modifies the token table; a get of an expired token
\* fails with UnknownToken and leaves the expired record in place.
C7_GetLeavesStore ==
  [][last'.op = "get" =>
       /\ dao_token' = dao_token
       /\ next_uuid' = next_uuid
       /\ (Present(GetId) /\ Past(GetId)) =>
            (GetId \in DOMAIN dao_token' /\ last'.outcome = "UnknownTokenException")]_vars

\* C7 witness: after a get of an expired token the record is still stored
C7_Witness ==
  /\ last.op = "get"
  /\ IsNone(last.acl)
  /\ last.outcome = "UnknownTokenException"
  /\ Val(last.id) \in DOMAIN dao_token

\* C8: a token created by new_token has issued_t equal to the clock reading
\* and expire_t = issued_t + expiration, with the requested expiration when
\* the request carries one and default_token_lifetime otherwise; the stored
\* record has the same two instants.
C8_ExpireIsIssuedPlusExpiration ==
  [][(last'.op = "new_token" /\ last'.outcome = "ok") =>
       LET T == Val(last'.token)
           requested == Val(last'.args).expiration
           expiration == IF IsNone(requested) THEN default_token_lifetime
                         ELSE Val(requested)
       IN /\ T.issued_t = now
          /\ T.expire_t = T.issued_t + expiration
          /\ dao_token'[T.token].issued_t = T.issued_t
          /\ dao_token'[T.token].expire_t = T.expire_t]_vars

\* C8 witness: a token issued with a requested expiration that differs from
\* the default lifetime
C8_Witness ==
  /\ last.op = "new_token"
  /\ last.outcome = "ok"
  /\ ~IsNone(Val(last.args).expiration)
  /\ Val(Val(last.args).expiration) # default_token_lifetime

\* C9: a token whose expire_t is in the past is expired and one whose expire_t
\* is not is not, at every clock reading; two tokens with the same expire_t
\* get the same answer whatever their other fields.
C9_IsExpiredIsPastExpiry ==
  \A u \in DOMAIN dao_token : \A t \in 0..(MaxTime + 1) :
    LET T == Token(u, dao_token[u])
    IN /\ is_expired(T, t) <=> (T.expire_t < t)
       /\ \A v \in DOMAIN dao_token :
            dao_token[v].expire_t = T.expire_t =>
              (is_expired(Token(v, dao_token[v]), t) <=> is_expired(T, t))

\* C9 witness: two stored tokens of different principals that share expire_t,
\* expired, and a get has just evaluated is_expired on one of them
C9_Witness ==
  /\ last.op = "get"
  /\ last.outcome = "UnknownTokenException"
  /\ \E u, v \in DOMAIN dao_token :
       /\ u = Val(last.id)
       /\ dao_token[u].expire_t < now
       /\ dao_token[v].expire_t = dao_token[u].expire_t
       /\ dao_token[v].auth_id # dao_token[u].auth_id

\* what the caller of get sees
Seen(r) == [outcome |-> r.outcome, token |-> r.token]

\* C10: for an expired token that is still in the store, get answers every
\* required ACL exactly as it does once the sweep has deleted the token, and
\* as it does for an id that was never issued: UnknownToken.
C10_ExpiredIndistinguishable ==
  LET after_sweep == cleanup(dao_token, FALSE, now).store
  IN \A u \in DOMAIN dao_token :
       now > dao_token[u].expire_t =>
         /\ u \notin DOMAIN after_sweep
         /\ \A acl \in RequiredAcls :
              /\ Seen(get(dao_token, u, acl, now)) = Seen(get(after_sweep, u, acl, now))
              /\ Seen(get(dao_token, u, acl, now)) = Seen(get(dao_token, 0, acl, now))
              /\ get(dao_token, u, acl, now).outcome = "UnknownTokenException"

\* C10 witness: a get with a required ACL that the expired, unswept token
\* does not grant
C10_Witness ==
  /\ last.op = "get"
  /\ ~IsNone(last.acl)
  /\ \E u \in DOMAIN dao_token :
       /\ u = Val(last.id)
       /\ now > dao_token[u].expire_t
       /\ ~matches_required_acl(Token(u, dao_token[u]), last.acl)

\* C11: a stored token is never changed: from one state to the next every
\* token id that stays in the table keeps its stored fields, whatever the
\* operation (new_token, get, remove_token, sweep); a successful new_token
\* adds a record under an id that was never handed out before and removes
\* or rewrites no other record.
C11_TokensNeverMutated ==
  [][/\ \A u \in DOMAIN dao_token \cap DOMAIN dao_token' : dao_token'[u] = dao_token[u]
     /\ (last'.op = "new_token" /\ last'.outcome = "ok") =>
          /\ Val(last'.token).token \notin 1..(next_uuid - 1)
          /\ Val(last'.token).token \notin DOMAIN dao_token
          /\ DOMAIN dao_token' = DOMAIN dao_token \cup {Val(last'.token).token}]_vars

\* C11 witness: a second token was issued while an earlier one, issued
\* with other fields, is still in the table
C11_Witness ==
  /\ last.op = "new_token"
  /\ last.outcome = "ok"
  /\ \E u \in DOMAIN dao_token :
       /\ u # Val(last.token).token
       /\ dao_token[u] # dao_token[Val(last.token).token]

\* a Python str of the model: a sequence of one-character strings
IsStr(x) == x \in Seq({"a", "b", "c", "e", "m", "u", "1", "2", "_", ".", "*", "#", "\n"})

\* a stored record that carries every field of a token
FullyFormed(rec) ==
  /\ DOMAIN rec = {"auth_id", "xivo_user_uuid", "xivo_uuid", "expire_t",
                   "issued_t", "acls", "metadata"}
  /\ IsStr(rec.auth_id) /\ rec.auth_id # <<>>
  /\ rec.xivo_uuid = "the-predefined-xivo-uuid"
  /\ rec.issued_t \in 1..MaxTime
  /\ rec.expire_t \in Nat /\ rec.expire_t > rec.issued_t
  /\ rec.acls \in Seq(Seq({"a", "b", "c", "e", "m", ".", "*"}))
  /\ \A i \in 1..Len(rec.acls) : rec.acls[i] # <<>>
  /\ "tenants" \in DOMAIN rec.metadata
  /\ \A tenant \in rec.metadata.tenants : DOMAIN tenant = {"uuid"}

\* C12: in every reachable state each record of the token table is fully
\* formed: it carries auth_id, the system uuid, issued_t, expire_t, an acls
\* sequence (possibly empty, never a null) and a metadata mapping with a
\* tenants list; this holds also after a new_token that failed midway.
C12_StoredTokensFullyFormed ==
  \A u \in DOMAIN dao_token : FullyFormed(dao_token[u])

\* C12 witness: new_token has just failed after get_metadata succeeded (a
\* missing metadata key, or get_acls raising) while the table holds a token
\* whose backend returned no ACLs
C12_Witness ==
  /\ last.op = "new_token"
  /\ last.outcome \in {"KeyError", "BackendException"}
  /\ ~Val(last.reply).metadata_raises
  /\ \E u \in DOMAIN dao_token : dao_token[u].acls = <<>>

\* C13: whatever the sweeper's bulk delete does, raise or return, run ends
\* normally (the error is swallowed, nothing propagates to the Timer
\* thread) and has armed the next Timer with the configured interval; so in
\* every reachable state a next sweep is pending.
C13_SweepAlwaysRescheduled ==
  /\ remover.timers >= 1
  /\ last.op = "run" =>
       /\ last.outcome \in {"ok", "swallowed"}
       /\ last.timer = Some(token_cleanup_interval)

\* C13 witness: a sweep whose bulk delete raised, with an expired token
\* still in the table, and the next sweep pending
C13_Witness ==
  /\ last.op = "run"
  /\ last.outcome = "swallowed"
  /\ remover.timers >= 1
  /\ \E u \in DOMAIN dao_token : now > dao_token[u].expire_t

\* the events published by the step, and the sessions and tokens it deleted
Published == SubSeq(bus', Len(bus) + 1, Len(bus'))
DeletedSessions == dao_session.live \ dao_session'.live
DeletedTokens == DOMAIN dao_token \ DOMAIN dao_token'

LiveSpec == Spec /\ WF_vars(Run(FALSE))

\* C17: with sweeps that keep being scheduled and a bulk delete that
\* eventually succeeds, every token that is expired and still in the table
\* is eventually out of it; and a sweep removes only tokens for which
\* is_expired() holds, never an unexpired one.
C17_ExpiredEventuallySwept ==
  /\ \A u \in 1..MaxTokens :
       (u \in DOMAIN dao_token /\ is_expired(Token(u, dao_token[u]), now))
         ~> (u \notin DOMAIN dao_token)
  /\ [][last'.op = "run" =>
          \A u \in DOMAIN dao_token \ DOMAIN dao_token' :
            is_expired(Token(u, dao_token[u]), now)]_vars

\* C17 witness: a successful sweep has just removed an expired token and
\* left an unexpired one in the table
C17_Witness ==
  /\ last.op = "run"
  /\ last.outcome = "ok"
  /\ \E u \in 1..MaxTokens : <<"token", u>> \in swept
  /\ \E v \in DOMAIN dao_token : ~is_expired(Token(v, dao_token[v]), now)

\* the granted template and the required permission of a matcher call
\* (of a token holding exactly one template, and of a call that requires one)
Granted == IF Len(Val(last.token).acls) = 1 THEN Val(last.token).acls[1] ELSE <<>>
Required == IF IsNone(last.acl) THEN <<>> ELSE Val(last.acl)
Matched == last.op = "matches_required_acl" /\ last.outcome = "True"
Refused == last.op = "matches_required_acl" /\ last.outcome = "False"

HasChr(s, c) == \E i \in 1..Len(s) : s[i] = c
DotCount(s) == Cardinality({i \in 1..Len(s) : s[i] = "."})

\* the dot-delimited segments of s
RECURSIVE Split(_)
Split(s) ==
  IF ~HasChr(s, ".") THEN <<s>>
  ELSE LET i == CHOOSE j \in 1..Len(s) : s[j] = "." /\ \A k \in 1..(j - 1) : s[k] # "."
       IN <<SubSeq(s, 1, i - 1)>> \o Split(SubSeq(s, i + 1, Len(s)))

\* segment by segment, acl is '*' or the very text of s
SegmentsAgree(acl, s) ==
  /\ Len(Split(acl)) = Len(Split(s))
  /\ \A i \in 1..Len(Split(acl)) :
       Split(acl)[i] = <<"*">> \/ Split(acl)[i] = Split(s)[i]

\* C18: in a template '*' matches within one dot-delimited segment only.  For
\* a template with '*' (and no '#'), a permission that matches has exactly the
\* template's dots, so no '*' took a '.', and a permission that agrees with
\* the template segment by segment matches; 'a.*.c' matches 'a.b.c' and does
\* not match 'a.b.b.c'.
C18_StarStaysInSegment ==
  (/\ last.op = "matches_required_acl" /\ ~IsNone(last.acl)
   /\ HasChr(Granted, "*") /\ ~HasChr(Granted, "#")) =>
    /\ Matched => DotCount(Required) = DotCount(Granted)
    /\ SegmentsAgree(Granted, Required) => Matched
    /\ (Granted = <<"a", ".", "*", ".", "c">> /\ Required = <<"a", ".", "b", ".", "b", ".", "c">>)
         => Refused

C18_Witness ==
  /\ Matched
  /\ Granted = <<"a", ".", "*", ".", "c">>
  /\ Required = <<"a", ".", "b", ".", "c">>

\* the templates 'p.#' of the matcher's inputs, each with its prefix 'p.'
HashPrefix(acl) == SubSeq(acl, 1, Len(acl) - 1)
IsPrefixHash(acl) == Len(acl) > 2 /\ EndsWith(acl, <<".", "#">>) /\ ~HasChr(HashPrefix(acl), "#")

\* C19: '#' matches any remainder including dots.  A token granted 'p.#'
\* matches every required permission that is 'p.' followed by any string.
C19_HashMatchesAnyRemainder ==
  (last.op = "matches_required_acl" /\ IsPrefixHash(Granted)
     /\ StartsWith(Required, HashPrefix(Granted)))
    => Matched

\* the text a required permission puts where the template has 'me'
OwnOrMe(x) == x = <<"m", "e">> \/ x = Val(last.token).auth_id
LastSegment == SubSeq(Required, 5, Len(Required))
MiddleSegment == SubSeq(Required, 3, Len(Required) - 2)

\* C20: a token granted 'a.b.me' matches 'a.b.' + its own auth_id and
\* refuses 'a.b.' + any other principal's id; a token granted 'a.me.b'
\* matches 'a.X.b' exactly when X is the literal 'me' or its own auth_id.
C20_MeIsOwnPrincipalOnly ==
  last.op = "matches_required_acl" =>
    /\ (/\ Granted = <<"a", ".", "b", ".", "m", "e">>
        /\ StartsWith(Required, <<"a", ".", "b", ".">>)
        /\ LastSegment \in AclAuthIds)
         => (Matched <=> OwnOrMe(LastSegment))
    /\ (/\ Granted = <<"a", ".", "m", "e", ".", "b">>
        /\ Len(Required) >= 4
        /\ StartsWith(Required, <<"a", ".">>)
        /\ EndsWith(Required, <<".", "b">>))
         => (Matched <=> OwnOrMe(MiddleSegment))

\* a template without '#' and without a 'me' segment: text and '*' only
PlainTemplate(acl) ==
  ~HasChr(acl, "#") /\ \A i \in 1..Len(Split(acl)) : Split(acl)[i] # <<"m", "e">>

\* C21: a token matches a required permission iff the permission is None or
\* at least one granted template matches the whole permission string, never
\* only a prefix, a suffix or an inner part of it; a token without acls
\* matches only None.  Stated over the tokens whose templates are text and
\* '*', where matching the whole string is agreeing segment by segment.
C21_WholePermissionMatched ==
  (/\ last.op = "matches_required_acl"
   /\ \A i \in 1..Len(Val(last.token).acls) : PlainTemplate(Val(last.token).acls[i]))
    => (Matched <=>
          \/ IsNone(last.acl)
          \/ \E i \in 1..Len(Val(last.token).acls) :
               SegmentsAgree(Val(last.token).acls[i], Val(last.acl)))

\* C22: matches_required_acl(None) is true of every token, whatever its acls
\* (an empty list included), so get(id, None) on a token that is in the store
\* and not expired never fails with MissingACL: it returns the token.
C22_NoneAlwaysMatches ==
  [][/\ \A u \in DOMAIN dao_token : matches_required_acl(Token(u, dao_token[u]), None)
     /\ (last'.op = "get" /\ IsNone(last'.acl) /\ Present(GetId) /\ ~Past(GetId))
          => (last'.outcome # "MissingACLTokenException" /\ last'.outcome = "ok")]_vars

\* C22 witness: a token without acls looked up with no required permission
C22_Witness ==
  /\ last.op = "get"
  /\ IsNone(last.acl)
  /\ last.outcome = "ok"
  /\ Val(last.token).acls = <<>>
  /\ ~is_expired(Val(last.token), now)

\* the listing, the uuid and the result of a list_nodes call
Listing == Val(last.args)
Uuids == {n.uuid : n \in Listing}
ParentOf(x) == (CHOOSE n \in Listing : n.uuid = x).parent_uuid
\* x is root or is parented under root, directly or through its ancestors
RECURSIVE Under(_, _, _)
Under(x, root, n) ==
  IF x = root THEN TRUE
  ELSE IF n = 0 \/ ParentOf(x) = x THEN FALSE
  ELSE Under(ParentOf(x), root, n - 1)
HasChild(x) == \E n \in Listing : n.parent_uuid = x /\ n.uuid # x

\* C23: list_nodes(root) is exactly root plus every tenant transitively
\* parented under root, for every tenant of every single-rooted tree: no
\* descendant is missing and no ancestor, sibling or tenant of another
\* branch is included; a leaf gives itself, the top tenant gives all.
C23_ListNodesIsDescendantClosure ==
  (last.op = "list_nodes" /\ Val(last.id) \in Uuids) =>
    /\ Val(last.reply) = {x \in Uuids : Under(x, Val(last.id), Cardinality(Uuids))}
    /\ ~HasChild(Val(last.id)) => Val(last.reply) = {Val(last.id)}
    /\ Val(last.id) = "top" => Val(last.reply) = Uuids

\* C23 witness: a tenant with a child, a grandchild and a sibling, asked for
C23_Witness ==
  /\ last.op = "list_nodes"
  /\ Val(last.id) = "t1"
  /\ ParentOf("t1") = "top" /\ ParentOf("t2") = "t1" /\ ParentOf("t3") = "t2"
  /\ \E x \in Uuids \ {"t1", "top"} : x \notin Val(last.reply)
  /\ {"t1", "t2", "t3"} \subseteq Val(last.reply)

\* C24: list_nodes asked about a uuid that is not in the tenant listing does
\* not raise and returns the empty set or the singleton of that uuid, never
\* a tenant of the listing.
C24_AbsentTenantHasNoNodes ==
  (last.op = "list_nodes" /\ Val(last.id) \notin Uuids) =>
    /\ last.outcome = "ok"
    /\ Val(last.reply) \in {{}, {Val(last.id)}}
    /\ Val(last.reply) \cap Uuids = {}

\* C24 witness: an unlisted uuid asked of a listing of several tenants
C24_Witness ==
  /\ last.op = "list_nodes"
  /\ Val(last.id) = "absent"
  /\ Cardinality(Uuids) > 2
  /\ ~IsNone(last.reply)

\* the tenant_uuid of the metadata the backend of a new_token call returned
MetadataTenant == BackendMetadata[Val(last.args).backend].tenant_uuid

\* C25: new_token sets metadata['tenants'] to one {uuid} entry for each
\* element of list_nodes(tenant_uuid) when the backend metadata carries a
\* tenant_uuid, and to the empty list otherwise, in which case the tenant
\* tree is not consulted; the stored token carries the same tenants as the
\* returned one.
C25_TenantsAreListNodes ==
  (last.op = "new_token" /\ last.outcome = "ok") =>
    LET T == Val(last.token)
        consulted == \E i \in 1..Len(last.calls) : last.calls[i] = "list_nodes"
    IN /\ ~IsNone(MetadataTenant) =>
            /\ T.metadata.tenants
                 = {[uuid |-> u] : u \in list_nodes(TenantListing, Val(MetadataTenant))}
            /\ consulted
       /\ IsNone(MetadataTenant) => (T.metadata.tenants = {} /\ ~consulted)
       /\ dao_token[T.token].metadata.tenants = T.metadata.tenants

\* C25 witness: a token issued for a tenant that has a sub-tenant
C25_Witness ==
  /\ last.op = "new_token"
  /\ last.outcome = "ok"
  /\ MetadataTenant = Some("t1")
  /\ Cardinality(Val(last.token).metadata.tenants) = 2
  /\ [uuid |-> "t2"] \in dao_token[Val(last.token).token].metadata.tenants

\* the policies of the table that carry the name configured for a backend
PoliciesNamed(name) == {i \in 1..Len(dao_policy) : dao_policy[i].name = name}
FirstNamed(name) ==
  dao_policy[CHOOSE i \in PoliciesNamed(name) : \A j \in PoliciesNamed(name) : i <= j]

\* C26: when backend_policies maps the backend name to a policy name,
\* new_token hands the backend the ACL templates of the first policy with
\* that name instead of the templates the caller supplied (seen in the acls
\* of a backend that returns the templates it was handed); when no policy
\* has that name, issuance does not fail: the templates are empty and the
\* token is created.
C26_PolicyTemplatesReplaceCallers ==
  (/\ last.op = "new_token"
   /\ ~IsNone(backend_policies[Val(last.args).backend])
   /\ ~Val(last.reply).metadata_raises /\ ~Val(last.reply).missing_key
   /\ ~Val(last.reply).acls_raises) =>
    LET name == Val(backend_policies[Val(last.args).backend])
        handed == IF PoliciesNamed(name) = {} THEN <<>> ELSE FirstNamed(name).acl_templates
    IN /\ last.outcome = "ok"
       /\ Val(last.token).token \in DOMAIN dao_token
       /\ Val(last.reply).acls = "templates" => Val(last.token).acls = handed

\* C26 witness: the configured policy is the second row of the table and is
\* followed by another row of the same name; the caller supplied templates
C26_Witness ==
  /\ last.op = "new_token"
  /\ last.outcome = "ok"
  /\ Val(last.reply).acls = "templates"
  /\ Val(last.args).backend = "wazo_user"
  /\ Val(last.args).acl_templates # <<>>
  /\ Cardinality(PoliciesNamed("wazo_default_user_policy")) = 2
  /\ Val(last.token).acls = dao_policy[2].acl_templates

\* C27: when the persistence layer is unreachable, new_token, get and
\* remove_token each fail with the store-connection error (500), not with
\* UnknownToken and not with success, and a failed new_token leaves no token
\* behind.  (A backend that raises, or rabbitmq being down as well, fails
\* the call before it reaches the store and is left aside.)
C27_StoreOutageIsServerError ==
  [][(/\ last'.op \in {"new_token", "get", "remove_token"}
      /\ Val(last'.args).consul_down
      /\ ~Val(last'.args).backend_raises
      /\ ~Val(last'.args).rabbit_down)
       => /\ last'.outcome = "_ConsulConnectionException"
          /\ last'.op = "new_token" => (consul' = consul /\ next_uuid' = next_uuid)]_vars

\* C28: a token serialized to the store-facing form and reconstructed from it
\* is field-equal to the original: id, auth_id, user uuid, issued and expiry
\* instants, the set of acls, and name, for every token, one with an empty
\* acls list included.
C28_ConsulRoundTrip ==
  last.op = "from_consul" =>
    LET original == Val(last.args)
        rebuilt == Val(last.token)
    IN /\ rebuilt.token = original.token
       /\ rebuilt.auth_id = original.auth_id
       /\ rebuilt.xivo_user_uuid = original.xivo_user_uuid
       /\ rebuilt.issued_at = original.issued_at
       /\ rebuilt.expires_at = original.expires_at
       /\ Range(rebuilt.acls) = Range(original.acls)
       /\ rebuilt.name = original.name

\* C28 witness: a named token without acls went through the round trip
C28_Witness ==
  /\ last.op = "from_consul"
  /\ Val(last.args).acls = <<>>
  /\ IsNone(Val(last.reply).acls)
  /\ Val(last.token).acls = <<>>
  /\ Val(last.args).name = Some("n1")

\* the two time fields of a serialized token spell the same instant t: both
\* missing, or the UTC one t and the local one t moved by the zone's offset
SameInstant(local, utc, t) ==
  /\ IsNone(local) <=> IsNone(utc)
  /\ ~IsNone(utc) =>
       /\ Val(utc) = t
       /\ Val(local) - Val(utc) = Val(last.args).utc_offset
TimesFromStoredInstants ==
  /\ SameInstant(Val(last.reply).issued_at, Val(last.reply).utc_issued_at,
                 Val(last.token).issued_t)
  /\ SameInstant(Val(last.reply).expires_at, Val(last.reply).utc_expires_at,
                 Val(last.token).expire_t)

\* C29 as stated: to_dict has exactly the fields token, auth_id,
\* xivo_user_uuid, xivo_uuid, issued_at, expires_at, utc_issued_at,
\* utc_expires_at, acls, metadata, session_uuid, and its local and UTC time
\* fields are derived from the same stored instant.
C29_ToDictFieldsWithSession ==
  last.op = "to_dict" =>
    /\ DOMAIN Val(last.reply)
         = {"token", "auth_id", "xivo_user_uuid", "xivo_uuid", "issued_at",
            "expires_at", "utc_issued_at", "utc_expires_at", "acls", "metadata",
            "session_uuid"}
    /\ TimesFromStoredInstants

\* C29 amended: to_dict has exactly the fields token, auth_id,
\* xivo_user_uuid, xivo_uuid, issued_at, expires_at, utc_issued_at,
\* utc_expires_at, acls, metadata (no session_uuid), and its local and UTC
\* time fields are derived from the same stored instant: issued_t for both
\* issued fields, expire_t for both expiry fields.
C29_ToDictFields ==
  last.op = "to_dict" =>
    /\ DOMAIN Val(last.reply)
         = {"token", "auth_id", "xivo_user_uuid", "xivo_uuid", "issued_at",
            "expires_at", "utc_issued_at", "utc_expires_at", "acls", "metadata"}
    /\ TimesFromStoredInstants

\* C29 witness: a token whose two instants differ, serialized in a zone that
\* is not UTC
C29_Witness ==
  /\ last.op = "to_dict"
  /\ Val(last.args).utc_offset # 0
  /\ Val(last.token).issued_t = 1
  /\ Val(last.token).expire_t = 3
  /\ Val(last.reply).issued_at # Val(last.reply).utc_issued_at

SeenFrom(tenant_uuid) ==
  CASE tenant_uuid = "top" -> {"top"}
    [] tenant_uuid = "t1" -> {"top", "t1"}
    [] tenant_uuid = "t2" -> {"top", "t1", "t2"}
\* the group of the request just handled was not visible to its caller
GroupHidden ==
  \/ Val(last'.id) \notin DOMAIN Val(last.args)
  \/ Val(last'.reply).scoping_tenant_uuid
       \notin SeenFrom(Val(last.args)[Val(last'.id)].tenant_uuid)

\* C31: PUT on a group checks that the group is visible from the caller's
\* scoping tenant before it validates the body: when the group is not in the
\* caller's tenant subtree the outcome is 404 whether the body is valid or
\* not, and the group is not updated.
C31_HiddenGroupIs404BeforeBody ==
  [][(last'.op = "put" /\ GroupHidden)
       => /\ last'.outcome = "UnknownGroupException"
          /\ Val(last'.args) = Val(last.args)]_vars

\* C31 witness: a caller in a sub-tenant edits a group of the top tenant with
\* a body that is not valid, after some group was renamed
C31_Witness ==
  /\ last.op = "put"
  /\ Val(last.id) = "g1"
  /\ Val(last.reply).scoping_tenant_uuid = "t1"
  /\ Val(last.reply).body.name = "int"
  /\ last.outcome = "UnknownGroupException"
  /\ Val(last.args) # GroupTable

\* C32: Manager.get checks expiry before ACLs: for a token that is both
\* expired and lacking the required permission the outcome is UnknownToken,
\* never MissingACL.
C32_ExpiryBeforeAcl ==
  [][(/\ last'.op = "get"
      /\ Present(GetId) /\ Past(GetId)
      /\ ~IsNone(last'.acl)
      /\ ~SomeTemplateMatches(GetId, Val(last'.acl)))
       => /\ last'.outcome = "UnknownTokenException"
          /\ last'.outcome # "MissingACLTokenException"
          /\ IsNone(last'.token)]_vars

\* C32 witness: an expired token that holds templates, none of which grants
\* the permission asked for, answered UnknownToken
C32_Witness ==
  /\ last.op = "get"
  /\ last.outcome = "UnknownTokenException"
  /\ ~IsNone(last.acl)
  /\ Val(last.id) \in DOMAIN dao_token
  /\ now > dao_token[Val(last.id)].expire_t
  /\ dao_token[Val(last.id)].acls # <<>>
  /\ ~SomeTemplateMatches(Val(last.id), Val(last.acl))

\* the ids the store has handed out so far
Issued == 1..(next_uuid - 1)
\* get on id u fails with UnknownToken in the store and at the time given
Unknown(store, u, t) ==
  \A acl \in RequiredAcls : get(store, u, acl, t).outcome = "UnknownTokenException"

C34_OneSweepAtATime ==
  [][/\ remover.timers <= 1
     /\ remover'.timers <= 1
     /\ last'.op = "run" =>
          /\ remover.timers = 1
          /\ remover'.timers = 1
          /\ last'.timer = Some(token_cleanup_interval)]_vars

\* C34 witness: a failed sweep after a sweep that deleted tokens, with one
\* timer pending
C34_Witness ==
  /\ last.op = "run"
  /\ last.outcome = "swallowed"
  /\ swept # {}
  /\ remover.timers = 1

\* C35: a sweep interleaved with requests never changes what a request
\* observes: in every state, before or after a sweep, get answers the same
\* for every id and required ACL; a get on an issued, unremoved, unexpired
\* token returns that token, a get on an issued token past its expiry raises
\* UnknownToken whether the sweep has deleted it or not; and get, new_token
\* and remove_token can be taken in every state, whatever the sweeper's state.
C35_SweepInvisibleToRequests ==
  LET after_sweep == cleanup(dao_token, FALSE, now).store
  IN /\ \A u \in TokenIds, acl \in RequiredAcls :
          Seen(get(dao_token, u, acl, now)) = Seen(get(after_sweep, u, acl, now))
     /\ \A u \in DOMAIN valid :
          /\ Seen(get(dao_token, u, None, now)) = [outcome |-> "ok", token |-> Some(valid[u])]
          /\ Seen(get(after_sweep, u, None, now)) = [outcome |-> "ok", token |-> Some(valid[u])]
     /\ \A u \in Issued \ (DOMAIN valid \cup removed) :
          /\ get(dao_token, u, None, now).outcome = "UnknownTokenException"
          /\ get(after_sweep, u, None, now).outcome = "UnknownTokenException"
     /\ \A u \in TokenIds :
          /\ ENABLED Get(u, None)
          /\ ENABLED RemoveToken(u)
     /\ next_uuid <= MaxTokens =>
          \E reply \in BackendReplies, args \in RequestArgs : ENABLED NewToken(reply, args)

\* C35 witness: a get that succeeds on a token which lived through a sweep
\* that deleted another token
C35_Witness ==
  /\ last.op = "get"
  /\ last.outcome = "ok"
  /\ \E u \in DOMAIN valid, v \in Issued :
       /\ u = Val(last.id)
       /\ v # u
       /\ <<"token", v>> \in swept
       /\ valid[u].issued_t < now

\* list_nodes has returned: the tree is built and no tenant is pending
WalkDone == last.op = "list_nodes_walk" /\ Val(last.reply).todo = {}
\* how many times tenant x was visited
Visits(x) ==
  Cardinality({i \in 1..Len(Val(last.reply).out) : Val(last.reply).out[i] = x})

\* C36: on every listing that is a tree under a top tenant which is its own
\* parent, construction and list_nodes come to an end: the walk reaches the
\* point where nothing is pending and stays there, having visited each
\* tenant of the descendant closure once and no other; the top tenant is
\* visited once in list_nodes(top).
C36_WalkTerminates ==
  <>[](/\ WalkDone
       /\ \A x \in NodeIds :
            Visits(x) = IF x \in list_nodes(Val(last.args), Val(last.id)) THEN 1 ELSE 0
       /\ Val(last.id) = "top" => Visits("top") = 1)

\* C36 witness: list_nodes(top) has returned on a listing of depth two or
\* more, every tenant visited
C36_Witness ==
  /\ WalkDone
  /\ Val(last.id) = "top"
  /\ Len(Val(last.reply).out) = Cardinality(Val(last.args))
  /\ \E n \in Val(last.args) : n.parent_uuid \notin {"top", n.uuid}

\* C37: the cleanup task new_token schedules for a token carries the task
\* id remove_token revokes for that token: after remove_token(T.token) has
\* returned, every task scheduled for T.token has the id
\* _get_token_hash(T.token) and is revoked, so none stays scheduled.
C37_RemoveRevokesScheduledTask ==
  [][(last'.op = "remove_token" /\ last'.outcome = "ok") =>
       \A task \in celery'.tasks :
         task.token = Val(last'.id) =>
           /\ task.task_id = get_token_hash(format_id(task.token))
           /\ task.task_id \in celery'.revoked]_vars

\* C38: a legacy new_token or remove_token that fails with the RabbitMQ
\* connection error leaves the token store as it was before the call: the
\* failed new_token stored no token, the failed remove_token removed none.
C38_RabbitFailureLeavesStore ==
  [][(/\ last'.op \in {"new_token", "remove_token"}
      /\ last'.outcome = "_RabbitMQConnectionException")
       => consul' = consul]_vars

\* the name index and the token records agree
NameIndexConsistent(c) ==
  /\ \A n \in DOMAIN c.names :
       /\ c.names[n] \in DOMAIN c.tokens
       /\ c.tokens[c.names[n]].name = Some(n)
  /\ \A id \in DOMAIN c.tokens :
       ~IsNone(c.tokens[id].name) =>
         /\ Val(c.tokens[id].name) \in DOMAIN c.names
         /\ c.names[Val(c.tokens[id].name)] = id

\* C39: under any sequence of put_token and remove_token the name index and
\* the token records stay consistent: a name index entry exists iff a stored
\* token carries that name, and it points to that token's id; remove_token
\* of a named token deletes the token data and its index entry together.
C39_NameIndexConsistent ==
  [][/\ NameIndexConsistent(consul) => NameIndexConsistent(consul')
     /\ (/\ last'.op = "remove_token"
         /\ last'.outcome = "ok"
         /\ Val(last'.id) \in DOMAIN consul.tokens
         /\ ~IsNone(consul.tokens[Val(last'.id)].name))
          => /\ Val(last'.id) \notin DOMAIN consul'.tokens
             /\ Val(consul.tokens[Val(last'.id)].name) \notin DOMAIN consul'.names]_vars

\* C40: when no policy is mapped to the backend name, new_token leaves the
\* caller's ACL templates in effect: backend.get_acls receives the
\* args['acl_templates'] the caller supplied, so a backend that grants its
\* templates issues a token carrying them.
C40_UnmappedBackendKeepsTemplates ==
  [][(/\ last'.op = "new_token"
      /\ last'.outcome = "ok"
      /\ IsNone(backend_policies[Val(last'.args).backend])
      /\ Val(last'.reply).acls = "templates")
       => /\ get_acl_templates(dao_policy, Val(last'.args).backend)
               = Val(last'.args).acl_templates
          /\ Val(last'.token).acls = Val(last'.args).acl_templates]_vars

====
